---------------------------- MODULE Spec2Model ----------------------------
(***************************************************************************)
(* A model of rlox, the Rust implementation of Lox.                        *)
(*                                                                         *)
(* The tree-walking pipeline (resolver.rs, interpreter.rs, env.rs,         *)
(* functions.rs, class.rs, object.rs, run.rs) is modelled as a big-step    *)
(* evaluator over abstract syntax trees: every visitor method of the       *)
(* source is one operator, the reference-counted heap (Rc / Weak) is an    *)
(* explicit store, and Runner::run is the state machine that resolves and  *)
(* interprets one top-level statement per step.                            *)
(***************************************************************************)
EXTENDS Integers, Sequences, FiniteSets, TLC

(***************************************************************************)
(* Bounds of the model.                                                    *)
(***************************************************************************)
\* steps (calls and loop iterations) one top-level statement may take
MaxFuel == 40

(***************************************************************************)
(* object.rs / ast/token.rs: runtime values.  Every value is a record of   *)
(* the same shape; the field t is the arm of Object / Literal / Callable.  *)
(*   nil, bool(b), num(n), str(s)            Object::Literal               *)
(*   func(id = captured scope, params, body, init)  Callable::Runtime      *)
(*   static(s = name)                        Callable::Static              *)
(*   class(id)                               Object::Class(Rc<LoxClass>)   *)
(*   inst(id = handle of the shared field map, n = class)                  *)
(*                                           Object::Instance              *)
(***************************************************************************)
NilV == [t |-> "nil", n |-> 0, s |-> "", b |-> FALSE, id |-> 0,
         params |-> <<>>, body |-> <<>>, init |-> FALSE]

BoolV(x) == [NilV EXCEPT !.t = "bool", !.b = x]

NumV(x) == [NilV EXCEPT !.t = "num", !.n = x]

StrV(x) == [NilV EXCEPT !.t = "str", !.s = x]

FuncV(scope, ps, bd, ini) ==
    [NilV EXCEPT !.t = "func", !.id = scope, !.params = ps, !.body = <<bd>>, !.init = ini]

StaticV(name) == [NilV EXCEPT !.t = "static", !.s = name]

ClassV(c) == [NilV EXCEPT !.t = "class", !.id = c]

InstV(h, c) == [NilV EXCEPT !.t = "inst", !.id = h, !.n = c]

IsLiteral(v) == v.t \in {"nil", "bool", "num", "str"}

(***************************************************************************)
(* ast/expr.rs: Expr.  k is the variant; name/line/off are the lexeme and  *)
(* the position of the variant's (first) token; kids are the boxed         *)
(* sub-expressions.  Expr derives Hash and Eq, so two expressions are the  *)
(* same key of the side-table exactly when these records are equal.        *)
(***************************************************************************)
MkExpr(k, name, line, off, lit, kids) ==
    [k |-> k, name |-> name, line |-> line, off |-> off, lit |-> lit, kids |-> kids]

EId(name, line, off) == MkExpr("Identifier", name, line, off, NilV, <<>>)

ELit(v) == MkExpr("Literal", "", 0, 0, v, <<>>)

EThis(line, off) == MkExpr("This", "this", line, off, NilV, <<>>)

\* Super(keyword, method): name is the method's lexeme
ESuper(method, line, off) == MkExpr("Super", method, line, off, NilV, <<>>)

EGrp(e) == MkExpr("Grouping", "", 0, 0, NilV, <<e>>)

\* Unary(op, rhs) and Binary(lhs, op, rhs): name is the operator's lexeme
EUn(op, e) == MkExpr("Unary", op, 0, 0, NilV, <<e>>)

EBin(l, op, r) == MkExpr("Binary", op, 0, 0, NilV, <<l, r>>)

EAsg(name, line, off, e) == MkExpr("Assignment", name, line, off, NilV, <<e>>)

\* Call(callee, paren, args): kids[1] is the callee, the rest the arguments
ECall(callee, args) == MkExpr("Call", "", 0, 0, NilV, <<callee>> \o args)

EGet(obj, prop) == MkExpr("Get", prop, 0, 0, NilV, <<obj>>)

ESet(obj, prop, val) == MkExpr("Set", prop, 0, 0, NilV, <<obj, val>>)

(***************************************************************************)
(* ast/stmt.rs: Stmt.  e holds the statement's expressions (the optional   *)
(* ones as a sequence of length 0 or 1), ss its sub-statements.            *)
(***************************************************************************)
MkStmt(k, name, e, ss, ps) == [k |-> k, name |-> name, e |-> e, ss |-> ss, params |-> ps]

SEmpty == MkStmt("Empty", "", <<>>, <<>>, <<>>)

SBreak == MkStmt("Break", "", <<>>, <<>>, <<>>)

SExpr(e) == MkStmt("Expression", "", <<e>>, <<>>, <<>>)

SPrt(e) == MkStmt("Print", "", <<e>>, <<>>, <<>>)

\* Declaration(id, init): init is <<>> or <<expr>>
SVar(name, init) == MkStmt("Declaration", name, init, <<>>, <<>>)

SBlock(ss) == MkStmt("Block", "", <<>>, ss, <<>>)

\* If(cond, then, else): els is <<>> or <<stmt>>
SIf(c, th, els) == MkStmt("If", "", <<c>>, <<th>> \o els, <<>>)

SWhile(c, body) == MkStmt("While", "", <<c>>, <<body>>, <<>>)

\* Function(id, params, body): the body is one Block statement
SFun(name, ps, body) == MkStmt("Function", name, <<>>, <<SBlock(body)>>, ps)

\* Return(keyword, value): val is <<>> or <<expr>>
SRet(val) == MkStmt("Return", "", val, <<>>, <<>>)

\* Class(id, superclass, methods): sup is <<>> or <<expr>>, ms are Functions
SClass(name, sup, ms) == MkStmt("Class", name, sup, ms, <<>>)

(***************************************************************************)
(* The store: everything the Rust program keeps behind Rc handles.         *)
(*   envs    env.rs Env: parent link (0 = None), its kind (weak = TRUE for *)
(*           Parent::Weak) and the vals map                                *)
(*   classes class.rs LoxClass: name, parent (0 = None), methods           *)
(*   insts   class.rs LoxInstance: the shared fields map and its class;    *)
(*           origin is the number of the constructor call that made it     *)
(*   out     the lines written to stdout                                   *)
(*   roots   the handles held by Rust locals of the active visitor frames  *)
(*   locals  interpreter.rs Interpreter.locals (the resolver's side-table) *)
(*   log     history of what the visitors did, read only by the properties *)
(***************************************************************************)
EmptyMap == [x \in {} |-> NilV]

MapPut(f, key, val) == [x \in (DOMAIN f) \cup {key} |-> IF x = key THEN val ELSE f[x]]

NoRef == <<"n", 0>>

\* the handle a value holds strongly
ValRef(v) ==
    CASE v.t = "func" -> <<"e", v.id>>
      [] v.t = "class" -> <<"c", v.id>>
      [] v.t = "inst" -> <<"i", v.id>>
      [] OTHER -> NoRef

MapRefs(f) == {ValRef(f[x]) : x \in DOMAIN f}

\* the strong references stored in a node of the heap
NodeRefs(st, node) ==
    CASE node[1] = "e" ->
           LET env == st.envs[node[2]] IN
           MapRefs(env.vals) \cup
             (IF env.parent # 0 /\ ~env.weak THEN {<<"e", env.parent>>} ELSE {})
      [] node[1] = "c" ->
           LET cls == st.classes[node[2]] IN
           MapRefs(cls.methods) \cup
             (IF cls.parent # 0 THEN {<<"c", cls.parent>>} ELSE {})
      [] node[1] = "i" ->
           LET ins == st.insts[node[2]] IN
           MapRefs(ins.fields) \cup {<<"c", ins.class>>}
      [] OTHER -> {}

AllNodes(st) ==
    {<<"e", i>> : i \in 1..Len(st.envs)} \cup
    {<<"c", i>> : i \in 1..Len(st.classes)} \cup
    {<<"i", i>> : i \in 1..Len(st.insts)}

RootSet(st) == {st.roots[i] : i \in 1..Len(st.roots)}

(***************************************************************************)
(* std::rc::Rc: a node is freed when its strong count reaches zero, that   *)
(* is, when no root and no node that is itself still allocated holds it.   *)
(* A cycle of strong references is never freed.  LiveNodes is therefore    *)
(* the greatest set of nodes each held by a root or by a member.           *)
(***************************************************************************)
RECURSIVE Shrink(_, _)
Shrink(st, S) ==
    LET held == RootSet(st) \cup UNION {NodeRefs(st, m) : m \in S}
        S2 == S \cap held
    IN IF S2 = S THEN S ELSE Shrink(st, S2)

LiveNodes(st) == Shrink(st, AllNodes(st))

\* Weak::upgrade of the parent link of env e (a Strong link is always there)
ParentAlive(st, e) ==
    ~st.envs[e].weak \/ <<"e", st.envs[e].parent>> \in LiveNodes(st)

(***************************************************************************)
(* Results of the visitors: k is "ok" or the arm of result.rs Error        *)
(* ("runtime", "parse", "break", "return"), or "panic" for a Rust panic,   *)
(* or "fuel" when the step bound of the model is exhausted.                *)
(* v is the value (of Ok, or carried by Return), m the error message,      *)
(* w the environment a successful assign wrote to.                         *)
(***************************************************************************)
Res(st, k, v, m) == [st |-> st, k |-> k, v |-> v, m |-> m, w |-> 0]

\* a `let r = <value>;` of the source: With([r \in {value} |-> rest]) is rest
\* with r bound to the value, which is computed once
With(f) == f[CHOOSE x \in DOMAIN f : TRUE]

Ok(st, v) == Res(st, "ok", v, "")

Runtime(st, m) == Res(st, "runtime", NilV, m)

Panic(st, m) == Res(st, "panic", NilV, m)

PushRoot(st, node) == [st EXCEPT !.roots = Append(@, node)]

PopRoot(st) == [st EXCEPT !.roots = SubSeq(@, 1, Len(@) - 1)]

AddLog(st, entry) == [st EXCEPT !.log = Append(@, entry)]

(***************************************************************************)
(* class.rs LoxInstance::clone and the derived Clone of Object: the copy   *)
(* of an instance shares the field map of the original (Rc::clone of       *)
(* fields), every other value is copied as it is.                          *)
(***************************************************************************)
\* a clone that copies the field map instead of sharing its handle
LoxInstance_clone_deep(st, v) ==
    LET st1 == [st EXCEPT !.insts = Append(@, st.insts[v.id])]
    IN [st |-> st1, k |-> "ok", v |-> [v EXCEPT !.id = Len(st1.insts)], m |-> "", w |-> 0]

LoxInstance_clone(st, v) == Ok(st, v)

Object_clone(st, v) == IF v.t = "inst" THEN LoxInstance_clone(st, v) ELSE Ok(st, v)

(***************************************************************************)
(* env.rs                                                                  *)
(***************************************************************************)
\* Env::init: the new environment is the last of the store
Env_init(st, parent, weak) ==
    [st EXCEPT !.envs = Append(@, [parent |-> parent, weak |-> weak, vals |-> EmptyMap])]

NewEnv(st) == Len(st.envs)

\* has_weak that looks at the link of the environment only
Env_has_weak_own(st, e) == st.envs[e].parent # 0 /\ st.envs[e].weak

\* Env::has_weak / Parent::has_weak
RECURSIVE Env_has_weak(_, _)
Env_has_weak(st, e) ==
    IF st.envs[e].parent = 0 THEN FALSE
    ELSE IF st.envs[e].weak THEN TRUE
    ELSE Env_has_weak(st, st.envs[e].parent)

\* Env::from
Env_from(st, parent) == Env_init(st, parent, FALSE)

\* Env::from_weak with a weak link whatever the chain of the parent holds
Env_from_weak_always(st, parent) ==
    AddLog(Env_init(st, parent, TRUE),
           [tag |-> "from_weak", parent |-> parent, had |-> Env_has_weak(st, parent),
            env |-> Len(st.envs) + 1])

\* Env::from_weak; the history records the call, whether parent.has_weak()
\* held and the environment returned
Env_from_weak(st, parent) ==
    AddLog(IF Env_has_weak(st, parent) THEN Env_from(st, parent)
           ELSE Env_init(st, parent, TRUE),
           [tag |-> "from_weak", parent |-> parent, had |-> Env_has_weak(st, parent),
            env |-> Len(st.envs) + 1])

\* Env::define
Env_define(st, e, name, val) ==
    IF name \in DOMAIN st.envs[e].vals
    THEN Runtime(st, "already defined")
    ELSE Ok([st EXCEPT !.envs[e].vals = MapPut(@, name, val)], NilV)

\* Env::assign and Parent::assign
RECURSIVE Env_assign(_, _, _, _)
Env_assign(st, e, name, val) ==
    IF name \notin DOMAIN st.envs[e].vals
    THEN IF st.envs[e].parent # 0
         THEN IF ParentAlive(st, e)
              THEN Env_assign(st, st.envs[e].parent, name, val)
              ELSE Panic(st, "parent env went out of scope")
         ELSE Runtime(st, "undefined")
    ELSE [Ok([st EXCEPT !.envs[e].vals = MapPut(@, name, val)], val) EXCEPT !.w = e]

\* Env::get and Parent::get
RECURSIVE Env_get(_, _, _)
Env_get(st, e, name) ==
    IF name \notin DOMAIN st.envs[e].vals
    THEN IF st.envs[e].parent # 0
         THEN IF ParentAlive(st, e)
              THEN Env_get(st, st.envs[e].parent, name)
              ELSE Panic(st, "parent env went out of scope")
         ELSE Runtime(st, "undefined")
    ELSE Object_clone(st, st.envs[e].vals[name])

\* Env::get_global and Parent::get_global
RECURSIVE Env_get_global(_, _, _)
Env_get_global(st, e, name) ==
    IF st.envs[e].parent = 0 THEN Env_get(st, e, name)
    ELSE IF ParentAlive(st, e)
         THEN Env_get_global(st, st.envs[e].parent, name)
         ELSE Panic(st, "parent env went out of scope")

(***************************************************************************)
(* Env::ancestor.  The Option<Parent> held in the loop variable `env` is   *)
(* named by the environment c whose parent link it is (None when c has no  *)
(* parent); n is the number of iterations left.  Parent::parent upgrades   *)
(* the link it is called on.  The result is "some" with the environment    *)
(* that owns the link, "none", or "panic".                                 *)
(***************************************************************************)
RECURSIVE AncestorLoop(_, _, _)
AncestorLoop(st, c, n) ==
    IF n = 0
    THEN IF st.envs[c].parent = 0 THEN [k |-> "none", c |-> 0] ELSE [k |-> "some", c |-> c]
    ELSE IF st.envs[c].parent = 0 THEN [k |-> "none", c |-> 0]
    ELSE IF ~ParentAlive(st, c) THEN [k |-> "panic", c |-> 0]
    ELSE AncestorLoop(st, st.envs[c].parent, n - 1)

Env_ancestor(st, e, dist) == AncestorLoop(st, e, dist - 1)

NoDist == -1

\* Env::assign_at; dist is NoDist for None
Env_assign_at(st, e, name, val, dist) ==
    IF dist = NoDist \/ dist = 0 THEN Env_assign(st, e, name, val)
    ELSE LET a == Env_ancestor(st, e, dist) IN
         CASE a.k = "some" ->
                IF ParentAlive(st, a.c)
                THEN Env_assign(st, st.envs[a.c].parent, name, val)
                ELSE Panic(st, "parent env went out of scope")
           [] a.k = "panic" -> Panic(st, "parent env went out of scope")
           [] OTHER -> Runtime(st, "ancestor is undefined")

\* Env::get_at; dist is NoDist for None
Env_get_at(st, e, name, dist) ==
    IF dist = NoDist THEN Env_get_global(st, e, name)
    ELSE IF dist = 0 THEN Env_get(st, e, name)
    ELSE LET a == Env_ancestor(st, e, dist) IN
         CASE a.k = "some" ->
                IF ParentAlive(st, a.c)
                THEN Env_get(st, st.envs[a.c].parent, name)
                ELSE Panic(st, "parent env went out of scope")
           [] a.k = "panic" -> Panic(st, "parent env went out of scope")
           [] OTHER -> Runtime(st, "ancestor is undefined")

(***************************************************************************)
(* resolver.rs.  The resolver state rs:                                    *)
(*   scopes  Resolver.scopes, a stack of maps name -> defined?             *)
(*   cf, cc  Resolver.current_function, Resolver.current_class             *)
(*   locals  the interpreter's side-table the resolver inserts into        *)
(*   err     "" or the message of the Error::Parse the visit returned      *)
(***************************************************************************)
Resolver_new(locals) ==
    [scopes |-> <<>>, cf |-> "None", cc |-> "None", locals |-> locals, err |-> ""]

RErr(rs, m) == [rs EXCEPT !.err = m]

EmptyScope == [x \in {} |-> FALSE]

\* Resolver::begin_scope
begin_scope(rs) == [rs EXCEPT !.scopes = Append(@, EmptyScope)]

\* Resolver::end_scope
end_scope(rs) == [rs EXCEPT !.scopes = SubSeq(@, 1, Len(@) - 1)]

\* Resolver::declare
declare(rs, name) ==
    IF rs.scopes = <<>> THEN rs
    ELSE LET l == Len(rs.scopes)
             had == name \in DOMAIN rs.scopes[l]
             rs2 == [rs EXCEPT !.scopes[l] = MapPut(@, name, FALSE)]
         IN IF had THEN RErr(rs2, "variable already defined with that name in this scope")
            ELSE rs2

\* Resolver::define
define(rs, name) ==
    IF rs.scopes = <<>> THEN rs
    ELSE [rs EXCEPT !.scopes[Len(rs.scopes)] = MapPut(@, name, TRUE)]

\* Resolver::declare_and_define
declare_and_define(rs, name) ==
    LET r == declare(rs, name) IN IF r.err # "" THEN r ELSE define(r, name)

\* Interpreter::resolve
Interpreter_resolve(locals, expr, idx) == MapPut(locals, expr, idx)

\* Resolver::resolve_local: the innermost scope that has the name
resolve_local(rs, name, expr) ==
    LET l == Len(rs.scopes)
        hits == {i \in 1..l : name \in DOMAIN rs.scopes[i]}
    IN IF hits = {} THEN rs
       ELSE LET i == CHOOSE x \in hits : \A y \in hits : y <= x
            IN [rs EXCEPT !.locals = Interpreter_resolve(@, expr, l - i)]

RECURSIVE Resolver_expr(_, _)
RECURSIVE Resolver_exprs(_, _, _)
RECURSIVE Resolver_stmt(_, _)
RECURSIVE Resolver_stmts(_, _, _)
RECURSIVE Resolver_methods(_, _, _)

\* the loops `for arg in args { arg.accept(self)?; }`
Resolver_exprs(rs, es, i) ==
    IF i > Len(es) THEN rs
    ELSE LET r == Resolver_expr(rs, es[i]) IN
         IF r.err # "" THEN r ELSE Resolver_exprs(r, es, i + 1)

\* the loops `for s in body { s.accept(self)?; }`
Resolver_stmts(rs, ss, i) ==
    IF i > Len(ss) THEN rs
    ELSE LET r == Resolver_stmt(rs, ss[i]) IN
         IF r.err # "" THEN r ELSE Resolver_stmts(r, ss, i + 1)

\* the loop `for param in params { self.declare_and_define(param)?; }`
RECURSIVE declare_params(_, _, _)
declare_params(rs, ps, i) ==
    IF i > Len(ps) THEN rs
    ELSE LET r == declare_and_define(rs, ps[i]) IN
         IF r.err # "" THEN r ELSE declare_params(r, ps, i + 1)

\* Resolver::resolve_function
resolve_function(rs, ps, body, typ) ==
    LET prev == rs.cf
        r1 == declare_params(begin_scope([rs EXCEPT !.cf = typ]), ps, 1)
    IN IF r1.err # "" THEN r1
       ELSE LET r2 == Resolver_stmt(r1, body) IN
            IF r2.err # "" THEN r2
            ELSE [end_scope(r2) EXCEPT !.cf = prev]

\* impl ExprVisitor for Resolver
Resolver_expr(rs, e) ==
    CASE e.k = "Identifier" ->
           \* visit_identifier
           LET l == Len(rs.scopes)
               own_init == l > 0 /\ e.name \in DOMAIN rs.scopes[l] /\ ~rs.scopes[l][e.name]
           IN IF own_init
              THEN RErr(rs, "cannot read local variable in its own initializer.")
              ELSE resolve_local(rs, e.name, e)
      [] e.k = "Literal" -> rs
      [] e.k = "Grouping" -> Resolver_expr(rs, e.kids[1])
      [] e.k = "Unary" -> Resolver_expr(rs, e.kids[1])
      [] e.k = "Binary" ->
           LET r == Resolver_expr(rs, e.kids[1]) IN
           IF r.err # "" THEN r ELSE Resolver_expr(r, e.kids[2])
      [] e.k = "Assignment" ->
           \* visit_assignment
           LET r == Resolver_expr(rs, e.kids[1]) IN
           IF r.err # "" THEN r ELSE resolve_local(r, e.name, e)
      [] e.k = "Call" -> Resolver_exprs(rs, e.kids, 1)
      [] e.k = "Get" -> Resolver_expr(rs, e.kids[1])
      [] e.k = "Set" ->
           LET r == Resolver_expr(rs, e.kids[2]) IN
           IF r.err # "" THEN r ELSE Resolver_expr(r, e.kids[1])
      [] e.k = "This" ->
           \* visit_this
           IF rs.cc = "None" THEN RErr(rs, "cannot use 'this' outside of a class")
           ELSE resolve_local(rs, "this", e)
      [] e.k = "Super" ->
           \* visit_super
           CASE rs.cc = "None" -> RErr(rs, "cannot use 'super' outside of a class")
             [] rs.cc = "Class" -> RErr(rs, "cannot use 'super' in a class with no superclass")
             [] OTHER -> resolve_local(rs, "super", e)

\* the loop over the methods of Resolver::visit_class
Resolver_methods(rs, ms, i) ==
    IF i > Len(ms) THEN rs
    ELSE LET typ == IF ms[i].name = "init" THEN "Initializer" ELSE "Method"
             r == resolve_function(rs, ms[i].params, ms[i].ss[1], typ)
         IN IF r.err # "" THEN r ELSE Resolver_methods(r, ms, i + 1)

\* impl StmtVisitor for Resolver
Resolver_stmt(rs, s) ==
    CASE s.k \in {"Empty", "Break"} -> rs
      [] s.k \in {"Expression", "Print"} -> Resolver_expr(rs, s.e[1])
      [] s.k = "Declaration" ->
           \* visit_decl
           LET r1 == declare(rs, s.name) IN
           IF r1.err # "" THEN r1
           ELSE LET r2 == Resolver_exprs(r1, s.e, 1) IN
                IF r2.err # "" THEN r2 ELSE define(r2, s.name)
      [] s.k = "Block" ->
           LET r == Resolver_stmts(begin_scope(rs), s.ss, 1) IN
           IF r.err # "" THEN r ELSE end_scope(r)
      [] s.k = "If" ->
           LET r == Resolver_expr(rs, s.e[1]) IN
           IF r.err # "" THEN r ELSE Resolver_stmts(r, s.ss, 1)
      [] s.k = "While" ->
           LET r == Resolver_expr(rs, s.e[1]) IN
           IF r.err # "" THEN r ELSE Resolver_stmt(r, s.ss[1])
      [] s.k = "Function" ->
           \* visit_func
           LET r == declare_and_define(rs, s.name) IN
           IF r.err # "" THEN r
           ELSE resolve_function(r, s.params, s.ss[1], "Function")
      [] s.k = "Return" ->
           \* visit_return
           CASE rs.cf = "None" -> RErr(rs, "cannot return from top-level code")
             [] rs.cf = "Initializer" ->
                  RErr(rs, "cannot return a value from an initializer")
             [] OTHER -> Resolver_exprs(rs, s.e, 1)
      [] s.k = "Class" ->
           \* visit_class
           LET r1 == declare_and_define(rs, s.name) IN
           IF r1.err # "" THEN r1
           ELSE
           LET prev == r1.cc
               hasParent == s.e # <<>>
               r2 == IF hasParent
                     THEN Resolver_expr([r1 EXCEPT !.cc = "SubClass"], s.e[1])
                     ELSE [r1 EXCEPT !.cc = "Class"]
           IN IF r2.err # "" THEN r2
              ELSE
              LET r3 == IF hasParent THEN declare_and_define(begin_scope(r2), "super")
                        ELSE r2
              IN IF r3.err # "" THEN r3
                 ELSE
                 LET r4 == declare_and_define(begin_scope(r3), "this") IN
                 IF r4.err # "" THEN r4
                 ELSE
                 LET r5 == Resolver_methods(r4, s.ss, 1) IN
                 IF r5.err # "" THEN r5
                 ELSE LET r6 == end_scope(r5)
                          r7 == IF hasParent THEN end_scope(r6) ELSE r6
                      IN [r7 EXCEPT !.cc = prev]

\* Resolver::resolve: a new resolver per top-level statement
Resolver_resolve(locals, stmt) == Resolver_stmt(Resolver_new(locals), stmt)

(***************************************************************************)
(* object.rs                                                               *)
(***************************************************************************)
\* a truthiness in which only nil and false are falsey
is_truthy_nil_false(v) == ~(v.t = "nil" \/ (v.t = "bool" /\ ~v.b))

\* Object::is_truthy
is_truthy(v) ==
    CASE v.t \in {"func", "static", "class", "inst"} -> TRUE
      [] v.t = "nil" -> FALSE
      [] v.t = "bool" -> v.b
      [] v.t = "num" -> v.n # 0
      [] v.t = "str" -> v.s # ""

\* PartialEq for Object and for Literal
Object_eq(l, r) ==
    IF IsLiteral(l) /\ IsLiteral(r)
    THEN CASE l.t = "nil" -> r.t = "nil"
           [] l.t = "bool" -> r.t = "bool" /\ l.b = r.b
           [] l.t = "num" -> r.t = "num" /\ l.n = r.n
           [] l.t = "str" -> r.t = "str" /\ l.s = r.s
    ELSE FALSE

\* the strings the programs of the model compare, in the order of str::cmp
StrOrder == <<"", "A", "B", "a", "b">>

StrRank(x) == CHOOSE i \in 1..Len(StrOrder) : StrOrder[i] = x

Cmp(a, b) == IF a < b THEN "Less" ELSE IF a = b THEN "Equal" ELSE "Greater"

\* PartialOrd for Object and for Literal: "None" when the values do not compare
Object_partial_cmp(l, r) ==
    IF IsLiteral(l) /\ IsLiteral(r) /\ l.t = r.t
    THEN CASE l.t = "nil" -> "Equal"
           [] l.t = "str" -> Cmp(StrRank(l.s), StrRank(r.s))
           [] l.t = "num" -> Cmp(l.n, r.n)
           [] l.t = "bool" -> Cmp(IF l.b THEN 1 ELSE 0, IF r.b THEN 1 ELSE 0)
    ELSE "None"

\* Display of an f64 that holds an integer
Digit(d) == CASE d = 0 -> "0" [] d = 1 -> "1" [] d = 2 -> "2" [] d = 3 -> "3"
              [] d = 4 -> "4" [] d = 5 -> "5" [] d = 6 -> "6" [] d = 7 -> "7"
              [] d = 8 -> "8" [] OTHER -> "9"

RECURSIVE NatStr(_)
NatStr(n) == IF n < 10 THEN Digit(n) ELSE NatStr(n \div 10) \o Digit(n % 10)

NumStr(n) == IF n < 0 THEN "-" \o NatStr(0 - n) ELSE NatStr(n)

\* Display for LoxClass
RECURSIVE LoxClass_display(_, _)
LoxClass_display(st, c) ==
    IF st.classes[c].parent = 0 THEN st.classes[c].name
    ELSE st.classes[c].name \o "::" \o LoxClass_display(st, st.classes[c].parent)

\* Display for Object and for Literal
Object_display(st, v) ==
    CASE v.t = "nil" -> "nil"
      [] v.t = "bool" -> IF v.b THEN "true" ELSE "false"
      [] v.t = "num" -> NumStr(v.n)
      [] v.t = "str" -> v.s
      [] v.t \in {"func", "static"} -> "<function>"
      [] v.t = "class" -> LoxClass_display(st, v.id)
      [] v.t = "inst" -> LoxClass_display(st, v.n) \o " instance"

(***************************************************************************)
(* class.rs                                                                *)
(***************************************************************************)
\* a lookup that consults the table of the class alone
LoxClass_find_method_own(st, c, name) ==
    IF name \in DOMAIN st.classes[c].methods
    THEN [found |-> TRUE, m |-> st.classes[c].methods[name], owner |-> c]
    ELSE [found |-> FALSE, m |-> NilV, owner |-> 0]

\* LoxClass::find_method; owner is the class whose table holds the method
RECURSIVE LoxClass_find_method(_, _, _)
LoxClass_find_method(st, c, name) ==
    IF name \in DOMAIN st.classes[c].methods
    THEN [found |-> TRUE, m |-> st.classes[c].methods[name], owner |-> c]
    ELSE IF st.classes[c].parent # 0
         THEN LoxClass_find_method(st, st.classes[c].parent, name)
         ELSE [found |-> FALSE, m |-> NilV, owner |-> 0]

\* LoxInstance::new: a fresh field map
LoxInstance_new(st, c) ==
    [st EXCEPT !.insts = Append(@, [class |-> c, fields |-> EmptyMap,
                                    origin |-> Len(st.insts) + 1])]

NewInst(st) == InstV(Len(st.insts), st.insts[Len(st.insts)].class)

\* LoxInstance::set
LoxInstance_set(st, inst, field, val) ==
    Ok(AddLog([st EXCEPT !.insts[inst.id].fields = MapPut(@, field, val)],
              [tag |-> "set", origin |-> st.insts[inst.id].origin,
               field |-> field, v |-> val]),
       val)

(***************************************************************************)
(* functions.rs                                                            *)
(***************************************************************************)
\* a bind that writes this into the scope of the function itself
LoxFunction_bind_shared(st, f, inst) ==
    Ok(AddLog([st EXCEPT !.envs[f.id].vals = MapPut(@, "this", inst)],
              [tag |-> "bind", env |-> f.id, inst |-> inst.id]),
       f)

\* LoxFunction::bind: a new scope under the scope of the function, defining this
LoxFunction_bind(st, f, inst) ==
    LET st1 == Env_from(st, f.id)
        scope == NewEnv(st1)
        c == LoxInstance_clone(st1, inst)
        d == Env_define(c.st, scope, "this", c.v)
    IN IF d.k # "ok" THEN Panic(d.st, "failed to define this")
       ELSE Ok(AddLog(d.st, [tag |-> "bind", env |-> scope, inst |-> inst.id]),
               FuncV(scope, f.params, f.body[1], f.init))

\* LoxInstance::get
LoxInstance_get(st, inst, field) ==
    IF field \in DOMAIN st.insts[inst.id].fields
    THEN LET c == Object_clone(st, st.insts[inst.id].fields[field]) IN
         [c EXCEPT !.st = AddLog(@, [tag |-> "get", origin |-> st.insts[inst.id].origin,
                                     field |-> field, k |-> c.k, v |-> c.v])]
    ELSE LET f == LoxClass_find_method(st, inst.n, field) IN
         IF f.found THEN LoxFunction_bind(st, f.m, inst)
         ELSE Runtime(AddLog(st, [tag |-> "get", origin |-> st.insts[inst.id].origin,
                                  field |-> field, k |-> "runtime", v |-> NilV]),
                      "undefined property")

\* Callable::arity (LoxFunction, StaticFunction and InitFunction); a class
\* value stands for Callable::init(cls)
Callable_arity(st, callee) ==
    CASE callee.t = "func" -> Len(callee.params)
      [] callee.t = "static" -> 0
      [] callee.t = "class" ->
           LET f == LoxClass_find_method(st, callee.id, "init") IN
           IF f.found THEN Len(f.m.params) ELSE 0

(***************************************************************************)
(* interpreter.rs.  An Interpreter value it is [env, repl]: the current    *)
(* environment and the REPL flag; locals and stdout are in the store.      *)
(***************************************************************************)
\* Interpreter::scoped (the caller has created env with Env::from)
Interpreter_scoped(it, env) == [env |-> env, repl |-> FALSE]

\* Interpreter::with_env
Interpreter_with_env(it, env) == [env |-> env, repl |-> it.repl]

\* self.locals.get(expr): NoDist for None
LocalsGet(st, e) == IF e \in DOMAIN st.locals THEN st.locals[e] ELSE NoDist

Tick(st) == [st EXCEPT !.fuel = @ - 1]

OutOfFuel(st) == Res(st, "fuel", NilV, "")

\* Interpreter::visit_unary, after the operand is evaluated
visit_unary_op(st, op, r) ==
    CASE op = "-" -> IF r.t = "num" THEN Ok(st, NumV(0 - r.n))
                     ELSE Runtime(st, "cannot negate non-numeric")
      [] op = "!" -> Ok(st, BoolV(~is_truthy(r)))
      [] OTHER -> Runtime(st, "erroneous unary operator")

\* Interpreter::visit_binary, after both operands are evaluated.  Numbers
\* are integers; a quotient is the integer quotient.
visit_binary_op(st, op, l, r) ==
    CASE op = "+" ->
           CASE l.t = "num" /\ r.t = "num" -> Ok(st, NumV(l.n + r.n))
             [] l.t = "str" /\ IsLiteral(r) -> Ok(st, StrV(l.s \o Object_display(st, r)))
             [] IsLiteral(l) /\ r.t = "str" -> Ok(st, StrV(Object_display(st, l) \o r.s))
             [] OTHER -> Runtime(st, "cannot add mixed types")
      [] op = "-" ->
           IF l.t = "num" /\ r.t = "num" THEN Ok(st, NumV(l.n - r.n))
           ELSE Runtime(st, "cannot subtract non-numerics")
      [] op = "*" ->
           IF l.t = "num" /\ r.t = "num" THEN Ok(st, NumV(l.n * r.n))
           ELSE Runtime(st, "cannot multiply non-numerics")
      [] op = "/" ->
           CASE l.t = "num" /\ r.t = "num" /\ r.n = 0 -> Runtime(st, "divide by zero")
             [] l.t = "num" /\ r.t = "num" -> Ok(st, NumV(l.n \div r.n))
             [] OTHER -> Runtime(st, "cannot multiply non-numerics")
      [] op \in {">", ">=", "<", "<="} ->
           With([c \in {Object_partial_cmp(l, r)} |->
           With([x \in {CASE c = "Less" -> Ok(st, BoolV(op \in {"<", "<="}))
                          [] c = "Equal" -> Ok(st, BoolV(op \in {"<=", ">="}))
                          [] c = "Greater" -> Ok(st, BoolV(op \in {">", ">="}))
                          [] OTHER -> Runtime(st, "cannot compare types")} |->
           [x EXCEPT !.st = AddLog(@, [tag |-> "compare", op |-> op, l |-> l, r |-> r,
                                       k |-> x.k, v |-> x.v])]])])
      [] op = "==" -> Ok(st, BoolV(Object_eq(l, r)))
      [] op = "!=" -> Ok(st, BoolV(~Object_eq(l, r)))
      [] OTHER -> Runtime(st, "erroneous binary operator")

\* Interpreter::visit_assignment: the key used to read the side-table
visit_assignment_key(e) == e.kids[1]

\* the environment dist parent links above e (struct Env, field parent)
RECURSIVE Env_hop(_, _, _)
Env_hop(st, e, dist) ==
    IF dist <= 0 \/ e = 0 THEN e ELSE Env_hop(st, st.envs[e].parent, dist - 1)

\* the nearest environment at or above e whose map holds name, 0 if none
RECURSIVE Env_holder(_, _, _)
Env_holder(st, e, name) ==
    IF e = 0 THEN 0
    ELSE IF name \in DOMAIN st.envs[e].vals THEN e
    ELSE Env_holder(st, st.envs[e].parent, name)

\* the root of the chain of e: the global environment
RECURSIVE Env_root(_, _)
Env_root(st, e) == IF st.envs[e].parent = 0 THEN e ELSE Env_root(st, st.envs[e].parent)

\* the environments whose binding of name differs between two stores
Changed(before, after, name) ==
    {i \in 1..Len(before.envs) :
        /\ name \in DOMAIN before.envs[i].vals
        /\ after.envs[i].vals[name] # before.envs[i].vals[name]}

\* the entry logged for a lookup of name from env with side-table depth
\* dist: at is the environment dist parent links above env (0 if there are
\* fewer), here tells whether name is bound in that very environment
LookupEntry(st, env, name, dist, r) ==
    [tag |-> "lookup", name |-> name, env |-> env, dist |-> dist,
     at |-> Env_hop(st, env, dist),
     here |-> /\ Env_hop(st, env, dist) # 0
              /\ name \in DOMAIN st.envs[Env_hop(st, env, dist)].vals,
     k |-> r.k, m |-> r.m]

\* Interpreter::lookup_var
lookup_var(st, it, name, e) ==
    With([r \in {Env_get_at(st, it.env, name, LocalsGet(st, e))} |->
    [r EXCEPT !.st = AddLog(@, LookupEntry(st, it.env, name, LocalsGet(st, e), r))]])

\* a match that lets the Return sentinel through
LoxFunction_call_result_uncaught(f, b) ==
    CASE b.k = "ok" /\ f.init -> Env_get_at(b.st, f.id, "this", 0)
      [] b.k = "ok" -> Ok(b.st, NilV)
      [] OTHER -> b

\* LoxFunction::call: the match on the outcome b of the body
LoxFunction_call_result(f, b) ==
    CASE b.k \in {"ok", "return"} /\ f.init -> Env_get_at(b.st, f.id, "this", 0)
      [] b.k = "ok" -> Ok(b.st, NilV)
      [] b.k = "return" -> Ok(b.st, b.v)
      [] OTHER -> b

\* the method table built by Interpreter::visit_class: a later method of
\* the same name replaces an earlier one
MethodTable(ms, env) ==
    [x \in {ms[i].name : i \in 1..Len(ms)} |->
        LET i == CHOOSE j \in 1..Len(ms) :
                    ms[j].name = x /\ \A j2 \in 1..Len(ms) : ms[j2].name = x => j2 <= j
        IN FuncV(env, ms[i].params, ms[i].ss[1], ms[i].name = "init")]

RECURSIVE accept(_, _, _)
RECURSIVE ExecSeq(_, _, _, _)
RECURSIVE EvalArgs(_, _, _, _, _)
RECURSIVE visit_while(_, _, _)

\* the loop `for stmt in body { stmt.accept(&mut scope)?; }`
ExecSeq(st, it, ss, i) ==
    IF i > Len(ss) THEN Ok(st, NilV)
    ELSE With([r \in {accept(st, it, ss[i])} |->
         IF r.k # "ok" THEN r ELSE ExecSeq(r.st, it, ss, i + 1)])

\* the loop `for arg in args { params.push(arg.accept(self)?); }` over
\* kids[i..]; the values collected so far are held by the vector.  Each
\* argument evaluated is logged with the callee expression as call site.
EvalArgs(st, it, kids, i, acc) ==
    IF i > Len(kids) THEN [Ok(st, NilV) EXCEPT !.m = "", !.w = 0] @@ [args |-> acc]
    ELSE With([r0 \in {accept(st, it, kids[i])} |->
         With([r \in {[r0 EXCEPT !.st = AddLog(@, [tag |-> "arg", site |-> kids[1],
                                                   i |-> i - 1, k |-> r0.k])]} |->
         IF r.k # "ok" THEN r @@ [args |-> acc]
         ELSE EvalArgs(PushRoot(r.st, ValRef(r.v)), it, kids, i + 1, Append(acc, r.v))])])

RECURSIVE PopRoots(_, _)
PopRoots(st, n) == IF n = 0 THEN st ELSE PopRoots(PopRoot(st), n - 1)

\* the loop `for (param, arg) in zip { env.define(param, arg.clone())?; }`
\* of LoxFunction::call, from pair i on
RECURSIVE DefineParams(_, _, _, _, _)
DefineParams(st, env, params, args, i) ==
    IF i > Len(params) \/ i > Len(args) THEN Ok(st, NilV)
    ELSE With([d \in {Env_define(st, env, params[i], args[i])} |->
         IF d.k # "ok" THEN d ELSE DefineParams(d.st, env, params, args, i + 1)])

\* LoxFunction::call
LoxFunction_call(st, it, f, args) ==
    IF st.fuel = 0 THEN OutOfFuel(st)
    ELSE
    With([st1 \in {Env_from(Tick(st), f.id)} |->
    With([env \in {NewEnv(st1)} |->
    With([d \in {DefineParams(st1, env, f.params, args, 1)} |->
    IF d.k # "ok" THEN d
    ELSE
    With([b \in {accept(PushRoot(d.st, <<"e", env>>),
                        Interpreter_with_env(it, env), f.body[1])} |->
    With([r \in {LoxFunction_call_result(f, [b EXCEPT !.st = PopRoot(@)])} |->
    [r EXCEPT !.st = AddLog(@, [tag |-> "call", scope |-> f.id,
                                init |-> f.init, args |-> args,
                                bk |-> b.k, bv |-> b.v,
                                rk |-> r.k, rv |-> r.v])]])])])])])

\* a class call that returns the new instance without running init
InitFunction_call_skip_init(st, it, c, args) ==
    With([st1 \in {LoxInstance_new(st, c)} |->
    With([inst \in {NewInst(st1)} |->
    With([f \in {LoxClass_find_method(st1, c, "init")} |->
    Ok(AddLog(st1, [tag |-> "new", class |-> c, before |-> Len(st.insts),
                    args |-> args, hasInit |-> f.found, scope |-> 0,
                    k |-> "ok", v |-> inst]),
       inst)])])])

\* InitFunction::call
InitFunction_call(st, it, c, args) ==
    With([st1 \in {LoxInstance_new(st, c)} |->
    With([inst \in {NewInst(st1)} |->
    With([f \in {LoxClass_find_method(st1, c, "init")} |->
    With([bound \in {IF f.found
                     THEN LoxFunction_bind(PushRoot(st1, ValRef(inst)), f.m, inst)
                     ELSE Ok(PushRoot(st1, ValRef(inst)), NilV)} |->
    With([r \in {IF f.found /\ bound.k = "ok"
                 THEN \* Callable::call of the Callable::Runtime that bind returns
                      With([cr \in {LoxFunction_call(PushRoot(bound.st, ValRef(bound.v)),
                                                     it, bound.v, args)} |->
                      [cr EXCEPT !.st = PopRoot(@)]])
                 ELSE bound} |->
    With([res \in {IF r.k # "ok" THEN r ELSE Ok(r.st, inst)} |->
    [res EXCEPT !.st = AddLog(PopRoot(@),
        [tag |-> "new", class |-> c, before |-> Len(st.insts), args |-> args,
         hasInit |-> f.found,
         scope |-> IF f.found /\ bound.k = "ok" THEN bound.v.id ELSE 0,
         k |-> res.k, v |-> res.v])]])])])])])])

\* Callable::call
Callable_call(st, it, callee, args) ==
    CASE callee.t = "func" -> LoxFunction_call(st, it, callee, args)
      [] callee.t = "static" -> Ok(st, NumV(st.now))
      [] callee.t = "class" -> InitFunction_call(st, it, callee.id, args)

\* the entry dispatch_call logs when it returns: start is the length of the
\* log when it was entered
DispatchEntry(st, callee, e, r) ==
    [tag |-> "dispatch", site |-> e.kids[1], start |-> Len(st.log),
     arity |-> Callable_arity(st, callee), nargs |-> Len(e.kids) - 1, k |-> r.k]

\* a dispatch_call without the comparison of arity and argument count
dispatch_call_unchecked(st, it, callee, e) ==
    With([a \in {EvalArgs(st, it, e.kids, 2, <<>>)} |->
    IF a.k # "ok"
    THEN With([r \in {Res(PopRoots(a.st, Len(a.args)), a.k, a.v, a.m)} |->
         [r EXCEPT !.st = AddLog(@, DispatchEntry(st, callee, e, r))]])
    ELSE With([r \in {Callable_call(AddLog(a.st, [tag |-> "invoke", site |-> e.kids[1]]),
                                    it, callee, a.args)} |->
         [r EXCEPT !.st = AddLog(PopRoots(@, Len(a.args)),
                                 DispatchEntry(st, callee, e, r))]])])

\* Interpreter::dispatch_call; e is the Call expression.  The call of the
\* callee is logged as "invoke" before it is made.
dispatch_call(st, it, callee, e) ==
    IF Callable_arity(st, callee) # Len(e.kids) - 1
    THEN With([r \in {Runtime(st, "expected arguments")} |->
         [r EXCEPT !.st = AddLog(@, DispatchEntry(st, callee, e, r))]])
    ELSE With([a \in {EvalArgs(st, it, e.kids, 2, <<>>)} |->
         IF a.k # "ok"
         THEN With([r \in {Res(PopRoots(a.st, Len(a.args)), a.k, a.v, a.m)} |->
              [r EXCEPT !.st = AddLog(@, DispatchEntry(st, callee, e, r))]])
         ELSE With([r \in {Callable_call(AddLog(a.st, [tag |-> "invoke",
                                                       site |-> e.kids[1]]),
                                         it, callee, a.args)} |->
              [r EXCEPT !.st = AddLog(PopRoots(@, Len(a.args)),
                                      DispatchEntry(st, callee, e, r))]])])

\* a visit_logical that evaluates both operands before it looks at the left one
visit_logical_eager(st, it, e) ==
    With([l \in {accept(st, it, e.kids[1])} |->
    IF l.k # "ok" THEN l
    ELSE With([r \in {accept(l.st, it, e.kids[2])} |->
         With([res \in {IF r.k # "ok" THEN r
                        ELSE Ok(r.st, BoolV(IF e.name = "and"
                                            THEN is_truthy(l.v) /\ is_truthy(r.v)
                                            ELSE is_truthy(l.v) \/ is_truthy(r.v)))} |->
         [res EXCEPT !.st = AddLog(@, [tag |-> "logical", op |-> e.name, l |-> l.v,
                                       rhs |-> e.kids[2].k,
                                       grew |-> Len(@.log) > Len(l.st.log),
                                       k |-> res.k, v |-> res.v])]])])])

\* Interpreter::visit_logical.  The entry logged records whether anything
\* was logged (a call made) after the left operand had its value.
visit_logical(st, it, e) ==
    With([l \in {accept(st, it, e.kids[1])} |->
    IF l.k # "ok" THEN l
    ELSE With([res \in {
           CASE e.name = "and" /\ is_truthy(l.v) ->
                With([r \in {accept(l.st, it, e.kids[2])} |->
                IF r.k # "ok" THEN r ELSE Ok(r.st, BoolV(is_truthy(r.v)))])
           [] e.name = "or" /\ is_truthy(l.v) -> Ok(l.st, BoolV(TRUE))
           [] e.name = "or" ->
                With([r \in {accept(l.st, it, e.kids[2])} |->
                IF r.k # "ok" THEN r ELSE Ok(r.st, BoolV(is_truthy(r.v)))])
           [] OTHER -> Ok(l.st, BoolV(FALSE))} |->
         [res EXCEPT !.st = AddLog(@, [tag |-> "logical", op |-> e.name, l |-> l.v,
                                       rhs |-> e.kids[2].k,
                                       grew |-> Len(@.log) > Len(l.st.log),
                                       k |-> res.k, v |-> res.v])]])])

\* Interpreter::visit_super
visit_super(st, it, e) ==
    IF e \notin DOMAIN st.locals THEN Panic(st, "dist always available for super")
    ELSE
    With([dist \in {st.locals[e]} |->
    With([p0 \in {Env_get_at(st, it.env, "super", dist)} |->
    With([p \in {[p0 EXCEPT !.st = AddLog(@, LookupEntry(st, it.env, "super", dist, p0))]} |->
    IF p.k # "ok" THEN p
    ELSE IF p.v.t # "class" THEN Runtime(p.st, "unexpected super")
    ELSE IF dist = 0 THEN Panic(p.st, "attempt to subtract with overflow")
    ELSE
    With([i0 \in {Env_get_at(p.st, it.env, "this", dist - 1)} |->
    With([i \in {[i0 EXCEPT !.st = AddLog(@, LookupEntry(p.st, it.env, "this",
                                                        dist - 1, i0))]} |->
    IF i.k # "ok" THEN i
    ELSE IF i.v.t # "inst" THEN Runtime(i.st, "unexpected this")
    ELSE
    With([f \in {LoxClass_find_method(i.st, p.v.id, e.name)} |->
    With([r \in {IF f.found THEN LoxFunction_bind(i.st, f.m, i.v)
                 ELSE Runtime(i.st, "undefined property")} |->
    [r EXCEPT !.st = AddLog(@, [tag |-> "super", env |-> it.env, line |-> e.line,
                                off |-> e.off, method |-> e.name,
                                parent |-> p.v.id, inst |-> i.v.id,
                                found |-> f.found, owner |-> f.owner,
                                k |-> r.k, v |-> r.v])]])])])])])])])

\* impl ExprVisitor for Interpreter
Eval(st, it, e) ==
    CASE e.k = "Identifier" ->
           \* visit_identifier
           lookup_var(st, it, e.name, e)
      [] e.k = "This" ->
           \* visit_this
           With([r \in {lookup_var(st, it, "this", e)} |->
           [r EXCEPT !.st = AddLog(@, [tag |-> "this", env |-> it.env,
                                       k |-> r.k, v |-> r.v])]])
      [] e.k = "Literal" -> Ok(st, e.lit)
      [] e.k = "Grouping" -> accept(st, it, e.kids[1])
      [] e.k = "Unary" ->
           With([r \in {accept(st, it, e.kids[1])} |->
           IF r.k # "ok" THEN r ELSE visit_unary_op(r.st, e.name, r.v)])
      [] e.k = "Binary" ->
           IF e.name \in {"or", "and"} THEN visit_logical(st, it, e)
           ELSE With([l \in {accept(st, it, e.kids[1])} |->
                IF l.k # "ok" THEN l
                ELSE With([r \in {accept(PushRoot(l.st, ValRef(l.v)), it, e.kids[2])} |->
                     IF r.k # "ok" THEN [r EXCEPT !.st = PopRoot(@)]
                     ELSE visit_binary_op(PopRoot(r.st), e.name, l.v, r.v)])])
      [] e.k = "Assignment" ->
           \* visit_assignment
           With([r \in {accept(st, it, e.kids[1])} |->
           IF r.k # "ok" THEN r
           ELSE With([a \in {Env_assign_at(r.st, it.env, e.name, r.v,
                                           LocalsGet(r.st, visit_assignment_key(e)))} |->
                With([dist \in {LocalsGet(r.st, e)} |->
                [a EXCEPT !.st = AddLog(@,
                    [tag |-> "assign", name |-> e.name, env |-> it.env,
                     dist |-> dist, k |-> a.k, w |-> a.w,
                     target |-> IF dist = NoDist
                                THEN Env_root(r.st, it.env)
                                ELSE Env_holder(r.st, Env_hop(r.st, it.env, dist),
                                                e.name),
                     changed |-> Changed(r.st, a.st, e.name)])]])])])
      [] e.k = "Call" ->
           \* visit_call
           With([c \in {accept(st, it, e.kids[1])} |->
           IF c.k # "ok" THEN c
           ELSE IF c.v.t \in {"func", "static", "class"}
                THEN With([r \in {dispatch_call(PushRoot(c.st, ValRef(c.v)), it, c.v, e)} |->
                     [r EXCEPT !.st = PopRoot(@)]])
                ELSE Runtime(c.st, "can only call functions and classes")])
      [] e.k = "Get" ->
           \* visit_get
           With([c \in {accept(st, it, e.kids[1])} |->
           IF c.k # "ok" THEN c
           ELSE IF c.v.t = "inst" THEN LoxInstance_get(c.st, c.v, e.name)
                ELSE Runtime(c.st, "only instances have properties")])
      [] e.k = "Set" ->
           \* visit_set
           With([c \in {accept(st, it, e.kids[1])} |->
           IF c.k # "ok" THEN c
           ELSE IF c.v.t = "inst"
                THEN With([r \in {accept(PushRoot(c.st, ValRef(c.v)), it, e.kids[2])} |->
                     IF r.k # "ok" THEN [r EXCEPT !.st = PopRoot(@)]
                     ELSE LoxInstance_set(PopRoot(r.st), c.v, e.name, r.v)])
                ELSE Runtime(c.st, "only instances have fields")])
      [] e.k = "Super" -> visit_super(st, it, e)

\* Interpreter::visit_while
visit_while(st, it, s) ==
    IF st.fuel = 0 THEN OutOfFuel(st)
    ELSE With([c \in {accept(Tick(st), it, s.e[1])} |->
         IF c.k # "ok" THEN c
         ELSE IF ~is_truthy(c.v) THEN Ok(c.st, NilV)
         ELSE With([b \in {accept(c.st, it, s.ss[1])} |->
              CASE b.k = "break" -> Ok(b.st, NilV)
                [] b.k # "ok" -> b
                [] OTHER -> visit_while(b.st, it, s)])])

\* Interpreter::visit_class
visit_class(st, it, s) ==
    With([st1 \in {Env_from_weak(st, it.env)} |->
    With([env \in {NewEnv(st1)} |->
    With([p \in {IF s.e = <<>> THEN Ok(PushRoot(st1, <<"e", env>>), NilV)
                 ELSE accept(PushRoot(st1, <<"e", env>>), it, s.e[1])} |->
    IF p.k # "ok" THEN [p EXCEPT !.st = PopRoot(@)]
    ELSE IF s.e # <<>> /\ p.v.t # "class"
    THEN Res(PopRoot(p.st), "parse", NilV, "superclass must be a class")
    ELSE
    With([d \in {IF s.e = <<>> THEN p ELSE Env_define(p.st, env, "super", p.v)} |->
    IF d.k # "ok" THEN [d EXCEPT !.st = PopRoot(@)]
    ELSE
    With([cls \in {[name |-> s.name,
                    parent |-> IF s.e = <<>> THEN 0 ELSE p.v.id,
                    methods |-> MethodTable(s.ss, env)]} |->
    With([r \in {Env_define([d.st EXCEPT !.classes = Append(@, cls)], it.env, s.name,
                            ClassV(Len(d.st.classes) + 1))} |->
    [r EXCEPT !.st = PopRoot(@)]])])])])])])

\* impl StmtVisitor for Interpreter
Exec(st, it, s) ==
    CASE s.k = "Empty" -> Ok(st, NilV)
      [] s.k = "Break" -> Res(st, "break", NilV, "")
      [] s.k \in {"Expression", "Print"} ->
           \* visit_expr_stmt, visit_print
           With([r \in {accept(st, it, s.e[1])} |->
           IF r.k # "ok" THEN r
           ELSE IF s.k = "Print" \/ it.repl
                THEN Ok([r.st EXCEPT !.out = Append(@, Object_display(r.st, r.v))], NilV)
                ELSE Ok(r.st, NilV)])
      [] s.k = "Declaration" ->
           \* visit_decl
           With([r \in {IF s.e = <<>> THEN Ok(st, NilV) ELSE accept(st, it, s.e[1])} |->
           IF r.k # "ok" THEN r
           ELSE With([d \in {Env_define(r.st, it.env, s.name, r.v)} |->
                [d EXCEPT !.st = AddLog(@,
                    [tag |-> "decl", env |-> it.env, name |-> s.name,
                     existed |-> s.name \in DOMAIN r.st.envs[it.env].vals,
                     k |-> d.k, v |-> r.v,
                     after |-> IF s.name \in DOMAIN d.st.envs[it.env].vals
                               THEN d.st.envs[it.env].vals[s.name] ELSE NilV])]])])
      [] s.k = "Block" ->
           \* visit_block
           With([st1 \in {Env_from(st, it.env)} |->
           With([env \in {NewEnv(st1)} |->
           With([r \in {ExecSeq(PushRoot(st1, <<"e", env>>),
                                Interpreter_scoped(it, env), s.ss, 1)} |->
           [r EXCEPT !.st = PopRoot(@)]])])])
      [] s.k = "If" ->
           \* visit_if
           With([c \in {accept(st, it, s.e[1])} |->
           IF c.k # "ok" THEN c
           ELSE With([st1 \in {AddLog(c.st, [tag |-> "if", v |-> c.v,
                                             then |-> is_truthy(c.v)])} |->
                IF is_truthy(c.v) THEN accept(st1, it, s.ss[1])
                ELSE IF Len(s.ss) > 1 THEN accept(st1, it, s.ss[2])
                ELSE Ok(st1, NilV)])])
      [] s.k = "While" -> visit_while(st, it, s)
      [] s.k = "Function" ->
           \* visit_func
           With([st1 \in {Env_from_weak(st, it.env)} |->
           Env_define(st1, it.env, s.name, FuncV(NewEnv(st1), s.params, s.ss[1], FALSE))])
      [] s.k = "Return" ->
           \* visit_return
           With([r \in {IF s.e = <<>> THEN Ok(st, NilV) ELSE accept(st, it, s.e[1])} |->
           IF r.k # "ok" THEN r ELSE Res(r.st, "return", r.v, "")])
      [] s.k = "Class" -> visit_class(st, it, s)

\* Expr::accept and Stmt::accept: the visit of a node by the Interpreter
accept(st, it, node) ==
    IF node.k \in {"Identifier", "This", "Literal", "Grouping", "Unary", "Binary",
                   "Assignment", "Call", "Get", "Set", "Super"}
    THEN Eval(st, it, node)
    ELSE Exec(st, it, node)

(***************************************************************************)
(* The programs the runner is given.  A program is the sequence of         *)
(* statements the parser yields for a source file; the Lox text of each    *)
(* is in the comment above it.  line is the number of the top-level        *)
(* statement and off numbers the identifier tokens of that line.           *)
(***************************************************************************)
N(n) == ELit(NumV(n))

S(x) == ELit(StrV(x))

\* var f; { fun g() { return RET; } f = g; } print f();
ProgEscape(ret) ==
    << SVar("f", <<>>),
       SBlock(<< SFun("g", <<>>, << SRet(<<ret>>) >>),
                 SExpr(EAsg("f", 2, 2, EId("g", 2, 3))) >>),
       SPrt(ECall(EId("f", 3, 1), <<>>)) >>

\* var f; { fun g() { return f; } f = g; print f(); }
ProgEscapeInside ==
    << SVar("f", <<>>),
       SBlock(<< SFun("g", <<>>, << SRet(<<EId("f", 2, 1)>>) >>),
                 SExpr(EAsg("f", 2, 2, EId("g", 2, 3))),
                 SPrt(ECall(EId("f", 2, 4), <<>>)) >>) >>

\* var k; { class A { m() { return k; } } k = A; } print k().m();
ProgClassEscape ==
    << SVar("k", <<>>),
       SBlock(<< SClass("A", <<>>, << SFun("m", <<>>, << SRet(<<EId("k", 2, 1)>>) >>) >>),
                 SExpr(EAsg("k", 2, 2, EId("A", 2, 3))) >>),
       SPrt(ECall(EGet(ECall(EId("k", 3, 1), <<>>), "m"), <<>>)) >>

\* var x = 9; { var y = 1; { var x = 0; x = RHS; print x; } } print x;
ProgAssign(rhs) ==
    << SVar("x", <<N(9)>>),
       SBlock(<< SVar("y", <<N(1)>>),
                 SBlock(<< SVar("x", <<N(0)>>),
                           SExpr(EAsg("x", 2, 1, rhs)),
                           SPrt(EId("x", 2, 9)) >>) >>),
       SPrt(EId("x", 3, 1)) >>

\* the right-hand sides RHS of ProgAssign: 1, y, (y), y + 0, y = 1
AssignRhs ==
    << N(1), EId("y", 2, 2), EGrp(EId("y", 2, 2)), EBin(EId("y", 2, 2), "+", N(0)),
       EAsg("y", 2, 3, N(1)) >>

\* fun f(a) { var b = 0; b = a; return b; } print f(5);
ProgAssignParam ==
    << SFun("f", <<"a">>, << SVar("b", <<N(0)>>),
                             SExpr(EAsg("b", 1, 1, EId("a", 1, 2))),
                             SRet(<<EId("b", 1, 3)>>) >>),
       SPrt(ECall(EId("f", 2, 1), <<N(5)>>)) >>

\* var r = "-"; if (V) r = "then"; else r = "else"; print r;
ProgIf(v) ==
    << SVar("r", <<S("-")>>),
       SIf(ELit(v), SExpr(EAsg("r", 2, 1, S("then"))), <<SExpr(EAsg("r", 2, 2, S("else")))>>),
       SPrt(EId("r", 3, 1)) >>

\* the condition values V of ProgIf
IfValues == << NilV, BoolV(TRUE), BoolV(FALSE), NumV(0), NumV(1), StrV(""), StrV("a") >>

\* fun f() {} class K {} var o = K();
\* if (f) print "f"; if (K) print "K"; if (o) print "o"; if (clock) print "c";
ProgIfObject ==
    << SFun("f", <<>>, <<>>),
       SClass("K", <<>>, <<>>),
       SVar("o", <<ECall(EId("K", 3, 1), <<>>)>>),
       SIf(EId("f", 4, 1), SPrt(S("f")), <<>>),
       SIf(EId("K", 5, 1), SPrt(S("K")), <<>>),
       SIf(EId("o", 6, 1), SPrt(S("o")), <<>>),
       SIf(EId("clock", 7, 1), SPrt(S("c")), <<>>) >>

\* var a = 1; var a = 2; print a;
ProgRedeclGlobal ==
    << SVar("a", <<N(1)>>), SVar("a", <<N(2)>>), SPrt(EId("a", 3, 1)) >>

\* print 0; { var a = 1; var a = 2; print a; }
ProgRedeclBlock ==
    << SPrt(N(0)),
       SBlock(<< SVar("a", <<N(1)>>), SVar("a", <<N(2)>>), SPrt(EId("a", 2, 1)) >>) >>

\* fun f(a) { var a = 2; return a; } print f(1);
ProgRedeclParam ==
    << SFun("f", <<"a">>, << SVar("a", <<N(2)>>), SRet(<<EId("a", 1, 1)>>) >>),
       SPrt(ECall(EId("f", 2, 1), <<N(1)>>)) >>

\* fun f() { var a = 1; var a = 2; } f();
ProgRedeclFun ==
    << SFun("f", <<>>, << SVar("a", <<N(1)>>), SVar("a", <<N(2)>>) >>),
       SExpr(ECall(EId("f", 2, 1), <<>>)) >>

\* class K { m() { var a = 1; var a = 2; } } K().m();
ProgRedeclMethod ==
    << SClass("K", <<>>, << SFun("m", <<>>, << SVar("a", <<N(1)>>), SVar("a", <<N(2)>>) >>) >>),
       SExpr(ECall(EGet(ECall(EId("K", 2, 1), <<>>), "m"), <<>>)) >>

\* print 1; break; print 2;
ProgBreakTop == << SPrt(N(1)), SBreak, SPrt(N(2)) >>

\* var i = 0; while (true) { if (i == 2) break; i = i + 1; } print i;
ProgBreakLoop ==
    << SVar("i", <<N(0)>>),
       SWhile(ELit(BoolV(TRUE)),
              SBlock(<< SIf(EBin(EId("i", 2, 1), "==", N(2)), SBreak, <<>>),
                        SExpr(EAsg("i", 2, 2, EBin(EId("i", 2, 3), "+", N(1)))) >>)),
       SPrt(EId("i", 3, 1)) >>

\* var n = 0; var i = 0;
\* while (i < 2) { var j = 0; while (true) { j = j + 1; if (j == 2) break; }
\*                 n = n + j; i = i + 1; }
\* print n;
ProgBreakNested ==
    << SVar("n", <<N(0)>>),
       SVar("i", <<N(0)>>),
       SWhile(EBin(EId("i", 3, 1), "<", N(2)),
              SBlock(<< SVar("j", <<N(0)>>),
                        SWhile(ELit(BoolV(TRUE)),
                               SBlock(<< SExpr(EAsg("j", 3, 2, EBin(EId("j", 3, 3), "+", N(1)))),
                                         SIf(EBin(EId("j", 3, 4), "==", N(2)), SBreak, <<>>) >>)),
                        SExpr(EAsg("n", 3, 5, EBin(EId("n", 3, 6), "+", EId("j", 3, 7)))),
                        SExpr(EAsg("i", 3, 8, EBin(EId("i", 3, 9), "+", N(1)))) >>)),
       SPrt(EId("n", 4, 1)) >>

\* fun f() { break; } var i = 0; while (i < 3) { i = i + 1; f(); } print i;
ProgBreakCall ==
    << SFun("f", <<>>, << SBreak >>),
       SVar("i", <<N(0)>>),
       SWhile(EBin(EId("i", 3, 1), "<", N(3)),
              SBlock(<< SExpr(EAsg("i", 3, 2, EBin(EId("i", 3, 3), "+", N(1)))),
                        SExpr(ECall(EId("f", 3, 4), <<>>)) >>)),
       SPrt(EId("i", 4, 1)) >>

\* fun makeCounter() { var i = 0; fun c() { i = i + 1; return i; } return c; }
\* var c = makeCounter(); print c(); print c();
ProgCounter ==
    << SFun("makeCounter", <<>>,
            << SVar("i", <<N(0)>>),
               SFun("c", <<>>, << SExpr(EAsg("i", 1, 1, EBin(EId("i", 1, 2), "+", N(1)))),
                                  SRet(<<EId("i", 1, 3)>>) >>),
               SRet(<<EId("c", 1, 4)>>) >>),
       SVar("c", <<ECall(EId("makeCounter", 2, 1), <<>>)>>),
       SPrt(ECall(EId("c", 3, 1), <<>>)),
       SPrt(ECall(EId("c", 4, 1), <<>>)) >>

\* fun noret() { var a = 1; }
\* fun inloop() { var i = 0; while (true) { i = i + 1; if (i == 2) { return i; } } }
\* fun bare() { return; }
\* print noret(); print inloop(); print bare();
ProgReturnForms ==
    << SFun("noret", <<>>, << SVar("a", <<N(1)>>) >>),
       SFun("inloop", <<>>,
            << SVar("i", <<N(0)>>),
               SWhile(ELit(BoolV(TRUE)),
                      SBlock(<< SExpr(EAsg("i", 2, 1, EBin(EId("i", 2, 2), "+", N(1)))),
                                SIf(EBin(EId("i", 2, 3), "==", N(2)),
                                    SBlock(<< SRet(<<EId("i", 2, 4)>>) >>), <<>>) >>)) >>),
       SFun("bare", <<>>, << SRet(<<>>) >>),
       SPrt(ECall(EId("noret", 4, 1), <<>>)),
       SPrt(ECall(EId("inloop", 5, 1), <<>>)),
       SPrt(ECall(EId("bare", 6, 1), <<>>)) >>

\* print 1; return 1; print 2;
ProgReturnTop == << SPrt(N(1)), SRet(<<N(1)>>), SPrt(N(2)) >>

\* print 1; { return; }
ProgReturnBlock == << SPrt(N(1)), SBlock(<< SRet(<<>>) >>) >>

\* class P { init(x) { this.x = x; } }
\* var p = P(7); print p.x; print p.init(8); print p.x;
ProgInit ==
    << SClass("P", <<>>,
              << SFun("init", <<"x">>, << SExpr(ESet(EThis(1, 1), "x", EId("x", 1, 2))) >>) >>),
       SVar("p", <<ECall(EId("P", 2, 1), <<N(7)>>)>>),
       SPrt(EGet(EId("p", 3, 1), "x")),
       SPrt(ECall(EGet(EId("p", 4, 1), "init"), <<N(8)>>)),
       SPrt(EGet(EId("p", 5, 1), "x")) >>

\* class Q { init() { fun h() { return 5; } this.v = h(); } } print Q().v;
ProgInitNested ==
    << SClass("Q", <<>>,
              << SFun("init", <<>>,
                      << SFun("h", <<>>, << SRet(<<N(5)>>) >>),
                         SExpr(ESet(EThis(1, 1), "v", ECall(EId("h", 1, 2), <<>>))) >>) >>),
       SPrt(EGet(ECall(EId("Q", 2, 1), <<>>), "v")) >>

\* class A { m() { return "A"; } }
\* class B < A { m() { return "B"; } t() { return super.m(); } }
\* class C < B { m() { return "C"; } }
\* print C().t(); print B().t();
ProgSuper ==
    << SClass("A", <<>>, << SFun("m", <<>>, << SRet(<<S("A")>>) >>) >>),
       SClass("B", <<EId("A", 2, 1)>>,
              << SFun("m", <<>>, << SRet(<<S("B")>>) >>),
                 SFun("t", <<>>, << SRet(<<ECall(ESuper("m", 2, 2), <<>>)>>) >>) >>),
       SClass("C", <<EId("B", 3, 1)>>, << SFun("m", <<>>, << SRet(<<S("C")>>) >>) >>),
       SPrt(ECall(EGet(ECall(EId("C", 4, 1), <<>>), "t"), <<>>)),
       SPrt(ECall(EGet(ECall(EId("B", 5, 1), <<>>), "t"), <<>>)) >>

\* class A { m() { return "A"; } }  class B < A {}
\* class C < B { m() { return super.m(); } }
\* print C().m();
ProgSuperSkip ==
    << SClass("A", <<>>, << SFun("m", <<>>, << SRet(<<S("A")>>) >>) >>),
       SClass("B", <<EId("A", 2, 1)>>, <<>>),
       SClass("C", <<EId("B", 3, 1)>>,
              << SFun("m", <<>>, << SRet(<<ECall(ESuper("m", 3, 2), <<>>)>>) >>) >>),
       SPrt(ECall(EGet(ECall(EId("C", 4, 1), <<>>), "m"), <<>>)) >>

\* class A { m() { return this.n; } }
\* class B < A { init(n) { this.n = n; }
\*               m() { return 0; }
\*               t() { fun inner() { return super.m(); } return inner(); } }
\* print B(5).t(); print B(6).t();
ProgSuperNested ==
    << SClass("A", <<>>, << SFun("m", <<>>, << SRet(<<EGet(EThis(1, 1), "n")>>) >>) >>),
       SClass("B", <<EId("A", 2, 1)>>,
              << SFun("init", <<"n">>, << SExpr(ESet(EThis(2, 2), "n", EId("n", 2, 3))) >>),
                 SFun("m", <<>>, << SRet(<<N(0)>>) >>),
                 SFun("t", <<>>,
                      << SFun("inner", <<>>, << SRet(<<ECall(ESuper("m", 2, 4), <<>>)>>) >>),
                         SRet(<<ECall(EId("inner", 2, 5), <<>>)>>) >>) >>),
       SPrt(ECall(EGet(ECall(EId("B", 3, 1), <<N(5)>>), "t"), <<>>)),
       SPrt(ECall(EGet(ECall(EId("B", 4, 1), <<N(6)>>), "t"), <<>>)) >>

\* class A {}  class B < A { t() { return super.nope(); } }  print B().t();
ProgSuperMissing ==
    << SClass("A", <<>>, <<>>),
       SClass("B", <<EId("A", 2, 1)>>,
              << SFun("t", <<>>, << SRet(<<ECall(ESuper("nope", 2, 2), <<>>)>>) >>) >>),
       SPrt(ECall(EGet(ECall(EId("B", 3, 1), <<>>), "t"), <<>>)) >>

\* class K {}  var k = K(); print k; print K(1);
ProgNoInit ==
    << SClass("K", <<>>, <<>>),
       SVar("k", <<ECall(EId("K", 2, 1), <<>>)>>),
       SPrt(EId("k", 3, 1)),
       SPrt(ECall(EId("K", 4, 1), <<N(1)>>)) >>

\* class A { init(x) { this.x = x; } }  class B < A {}
\* print B(3).x; print B(4).x; print B();
ProgInheritInit ==
    << SClass("A", <<>>,
              << SFun("init", <<"x">>, << SExpr(ESet(EThis(1, 1), "x", EId("x", 1, 2))) >>) >>),
       SClass("B", <<EId("A", 2, 1)>>, <<>>),
       SPrt(EGet(ECall(EId("B", 3, 1), <<N(3)>>), "x")),
       SPrt(EGet(ECall(EId("B", 4, 1), <<N(4)>>), "x")),
       SPrt(ECall(EId("B", 5, 1), <<>>)) >>

\* class P { init(n) { this.n = n; } get() { return this.n; } }
\* var a = P(1); var b = P(2); var ma = a.get; var mb = b.get;
\* print ma(); print mb(); print ma();
\* fun call(f) { return f(); } print call(ma); print call(mb);
ProgBind ==
    << SClass("P", <<>>,
              << SFun("init", <<"n">>, << SExpr(ESet(EThis(1, 1), "n", EId("n", 1, 2))) >>),
                 SFun("get", <<>>, << SRet(<<EGet(EThis(1, 3), "n")>>) >>) >>),
       SVar("a", <<ECall(EId("P", 2, 1), <<N(1)>>)>>),
       SVar("b", <<ECall(EId("P", 3, 1), <<N(2)>>)>>),
       SVar("ma", <<EGet(EId("a", 4, 1), "get")>>),
       SVar("mb", <<EGet(EId("b", 5, 1), "get")>>),
       SPrt(ECall(EId("ma", 6, 1), <<>>)),
       SPrt(ECall(EId("mb", 7, 1), <<>>)),
       SPrt(ECall(EId("ma", 8, 1), <<>>)),
       SFun("call", <<"f">>, << SRet(<<ECall(EId("f", 9, 1), <<>>)>>) >>),
       SPrt(ECall(EId("call", 10, 1), <<EId("ma", 10, 2)>>)),
       SPrt(ECall(EId("call", 11, 1), <<EId("mb", 11, 2)>>)) >>

\* class P { setx(v) { this.x = v; } }
\* var a = P(); var b = a; b.x = 1; print a.x; a.setx(2); print b.x;
\* var c = P(); c.x = 5; print a.x;
\* fun poke(o) { o.x = 7; } poke(a); print b.x; print c.x;
ProgAlias ==
    << SClass("P", <<>>,
              << SFun("setx", <<"v">>, << SExpr(ESet(EThis(1, 1), "x", EId("v", 1, 2))) >>) >>),
       SVar("a", <<ECall(EId("P", 2, 1), <<>>)>>),
       SVar("b", <<EId("a", 3, 1)>>),
       SExpr(ESet(EId("b", 4, 1), "x", N(1))),
       SPrt(EGet(EId("a", 5, 1), "x")),
       SExpr(ECall(EGet(EId("a", 6, 1), "setx"), <<N(2)>>)),
       SPrt(EGet(EId("b", 7, 1), "x")),
       SVar("c", <<ECall(EId("P", 8, 1), <<>>)>>),
       SExpr(ESet(EId("c", 9, 1), "x", N(5))),
       SPrt(EGet(EId("a", 10, 1), "x")),
       SFun("poke", <<"o">>, << SExpr(ESet(EId("o", 11, 1), "x", N(7))) >>),
       SExpr(ECall(EId("poke", 12, 1), <<EId("a", 12, 2)>>)),
       SPrt(EGet(EId("b", 13, 1), "x")),
       SPrt(EGet(EId("c", 14, 1), "x")) >>

\* a statement the parser failed on: the Err item of the statement iterator
SParseError == MkStmt("Err", "", <<>>, <<>>, <<>>)

\* print 1; var = 3; print 2;
ProgParseError == << SPrt(N(1)), SParseError, SPrt(N(2)) >>

\* fun f() { print "f"; return true; }
\* print false and f(); print true or f(); print true and f(); print false or f();
\* print nil and f(); print 0 or f(); print 1 and 2;
ProgLogical ==
    << SFun("f", <<>>, << SPrt(S("f")), SRet(<<ELit(BoolV(TRUE))>>) >>),
       SPrt(EBin(ELit(BoolV(FALSE)), "and", ECall(EId("f", 2, 1), <<>>))),
       SPrt(EBin(ELit(BoolV(TRUE)), "or", ECall(EId("f", 3, 1), <<>>))),
       SPrt(EBin(ELit(BoolV(TRUE)), "and", ECall(EId("f", 4, 1), <<>>))),
       SPrt(EBin(ELit(BoolV(FALSE)), "or", ECall(EId("f", 5, 1), <<>>))),
       SPrt(EBin(ELit(NilV), "and", ECall(EId("f", 6, 1), <<>>))),
       SPrt(EBin(N(0), "or", ECall(EId("f", 7, 1), <<>>))),
       SPrt(EBin(N(1), "and", N(2))) >>

\* fun p(x) { print x; return x; }
\* fun f(a, b, c) { print "B"; }
\* class K { init(a) { print "A"; } }
\* f(p(5), p(6), p(7)); K(p(8));
\* <call>;
ProgArgs(call) ==
    << SFun("p", <<"x">>, << SPrt(EId("x", 1, 1)), SRet(<<EId("x", 1, 2)>>) >>),
       SFun("f", <<"a", "b", "c">>, << SPrt(S("B")) >>),
       SClass("K", <<>>, << SFun("init", <<"a">>, << SPrt(S("A")) >>) >>),
       SExpr(ECall(EId("f", 4, 1), << ECall(EId("p", 4, 2), <<N(5)>>),
                                      ECall(EId("p", 4, 3), <<N(6)>>),
                                      ECall(EId("p", 4, 4), <<N(7)>>) >>)),
       SExpr(ECall(EId("K", 4, 5), << ECall(EId("p", 4, 6), <<N(8)>>) >>)),
       SExpr(call) >>

\* f(p(1), -nil, p(2));   f(p(3), p(4));   f(p(1), p(2), p(3), p(4));
\* f(-nil, p(1), -nil);   K();             K(-nil);   K(p(1), p(2));
ArgCalls ==
    << ECall(EId("f", 5, 1), << ECall(EId("p", 5, 2), <<N(1)>>), EUn("-", ELit(NilV)),
                                ECall(EId("p", 5, 3), <<N(2)>>) >>),
       ECall(EId("f", 5, 1), << ECall(EId("p", 5, 2), <<N(3)>>),
                                ECall(EId("p", 5, 3), <<N(4)>>) >>),
       ECall(EId("f", 5, 1), << ECall(EId("p", 5, 2), <<N(1)>>),
                                ECall(EId("p", 5, 3), <<N(2)>>),
                                ECall(EId("p", 5, 4), <<N(3)>>),
                                ECall(EId("p", 5, 5), <<N(4)>>) >>),
       ECall(EId("f", 5, 1), << EUn("-", ELit(NilV)), ECall(EId("p", 5, 2), <<N(1)>>),
                                EUn("-", ELit(NilV)) >>),
       ECall(EId("K", 5, 1), <<>>),
       ECall(EId("K", 5, 1), << EUn("-", ELit(NilV)) >>),
       ECall(EId("K", 5, 1), << ECall(EId("p", 5, 2), <<N(1)>>),
                                ECall(EId("p", 5, 3), <<N(2)>>) >>) >>

\* { var a = "A"; { fun show() { print a; } show(); var a = "B"; show(); } }
ProgShadowLate ==
    << SBlock(<< SVar("a", <<S("A")>>),
                 SBlock(<< SFun("show", <<>>, << SPrt(EId("a", 1, 1)) >>),
                           SExpr(ECall(EId("show", 1, 2), <<>>)),
                           SVar("a", <<S("B")>>),
                           SExpr(ECall(EId("show", 1, 3), <<>>)) >>) >>) >>

\* class A { init() { this.x = 1; return; this.x = 2; } } print A().x;
ProgInitReturnBare ==
    << SClass("A", <<>>,
              << SFun("init", <<>>, << SExpr(ESet(EThis(1, 1), "x", N(1))),
                                       SRet(<<>>),
                                       SExpr(ESet(EThis(1, 2), "x", N(2))) >>) >>),
       SPrt(EGet(ECall(EId("A", 2, 1), <<>>), "x")) >>

\* class A { init() { if (true) { return 1; } } } print A();
ProgInitReturnValue ==
    << SClass("A", <<>>,
              << SFun("init", <<>>,
                      << SIf(ELit(BoolV(TRUE)), SBlock(<< SRet(<<N(1)>>) >>), <<>>) >>) >>),
       SPrt(ECall(EId("A", 2, 1), <<>>)) >>

\* class A { init() { fun g() { return 1; } this.g = g; } } print A().g();
ProgInitNestedReturn ==
    << SClass("A", <<>>,
              << SFun("init", <<>>,
                      << SFun("g", <<>>, << SRet(<<N(1)>>) >>),
                         SExpr(ESet(EThis(1, 1), "g", EId("g", 1, 2))) >>) >>),
       SPrt(ECall(EGet(ECall(EId("A", 2, 1), <<>>), "g"), <<>>)) >>

\* print <l> < <r>; print <l> >= <r>;
ProgCompare(l, r) ==
    << SPrt(EBin(ELit(l), "<", ELit(r))), SPrt(EBin(ELit(l), ">=", ELit(r))) >>

CompareOperands ==
    << <<NumV(1), NumV(2)>>, <<StrV("a"), StrV("b")>>, <<BoolV(TRUE), BoolV(FALSE)>>,
       <<NilV, NilV>>, <<NumV(1), StrV("a")>>, <<NilV, BoolV(FALSE)>> >>

\* the lines typed at the prompt, one session each.  Every line is scanned
\* on its own, so its tokens are on line 1 and at the column they have in
\* that line:
\*   > { var a = 1; { print a; } }
\*   > var a = 2;     print a;
\* and
\*   > 1 + 2
\*   > var = 3
\*   > nil()
\*   > print 2 * 2;
PromptShadow ==
    << << SBlock(<< SVar("a", <<N(1)>>), SBlock(<< SPrt(EId("a", 1, 21)) >>) >>) >>,
       << SVar("a", <<N(2)>>), SPrt(EId("a", 1, 21)) >> >>

PromptEcho ==
    << << SExpr(EBin(N(1), "+", N(2))) >>,
       << SParseError >>,
       << SExpr(ECall(ELit(NilV), <<>>)) >>,
       << SPrt(EBin(N(2), "*", N(2))) >> >>

Sessions == << PromptShadow, PromptEcho >>

Programs ==
    << ProgEscape(N(1)), ProgEscape(EId("f", 2, 1)), ProgEscapeInside, ProgClassEscape >>
    \o [i \in 1..Len(AssignRhs) |-> ProgAssign(AssignRhs[i])]
    \o << ProgAssignParam >>
    \o [i \in 1..Len(IfValues) |-> ProgIf(IfValues[i])]
    \o << ProgIfObject,
          ProgRedeclGlobal, ProgRedeclBlock, ProgRedeclParam, ProgRedeclFun, ProgRedeclMethod,
          ProgBreakTop, ProgBreakLoop, ProgBreakNested, ProgBreakCall,
          ProgCounter, ProgReturnForms, ProgReturnTop, ProgReturnBlock,
          ProgInit, ProgInitNested,
          ProgSuper, ProgSuperSkip, ProgSuperNested, ProgSuperMissing,
          ProgNoInit, ProgInheritInit, ProgBind, ProgAlias, ProgParseError,
          ProgLogical >>
    \o [i \in 1..Len(ArgCalls) |-> ProgArgs(ArgCalls[i])]
    \o << ProgShadowLate, ProgInitReturnBare, ProgInitReturnValue, ProgInitNestedReturn >>
    \o [i \in 1..Len(CompareOperands) |->
           ProgCompare(CompareOperands[i][1], CompareOperands[i][2])]

(***************************************************************************)
(* The bytecode pipeline: token.rs, skip.rs, chunk.rs, value.rs,           *)
(* compiler.rs and vm.rs.                                                  *)
(***************************************************************************)

\* token.rs, Token: its type, the text of its lexeme and its line
Token_new(typ, lex, ln) == [typ |-> typ, lex |-> lex, ln |-> ln]

\* Option<Token>::None
NoToken == Token_new("None", "", 0)

\* value.rs, enum Value: Nil, Number(f64), Bool(bool), Obj(Object::String).
\* A number is an integer or, with nan set, the value NAN.
Value_Nil == [t |-> "Nil", n |-> 0, nan |-> FALSE, b |-> FALSE, s |-> ""]
Value_Number(n) == [t |-> "Number", n |-> n, nan |-> FALSE, b |-> FALSE, s |-> ""]
Value_NAN == [t |-> "Number", n |-> 0, nan |-> TRUE, b |-> FALSE, s |-> ""]
Value_Bool(b) == [t |-> "Bool", n |-> 0, nan |-> FALSE, b |-> b, s |-> ""]
Value_String(s) == [t |-> "String", n |-> 0, nan |-> FALSE, b |-> FALSE, s |-> s]

\* Value::is_number and Value::both_numbers: Ok(()) or Err(MustBeANumber)
Value_is_number(v) == v.t = "Number"
Value_both_numbers(l, r) == Value_is_number(l) /\ Value_is_number(r)

\* Value::both_any and Value::any: always Ok(())
Value_both_any(l, r) == TRUE
Value_any(v) == TRUE

\* impl PartialEq for Value; NAN equals nothing
Value_eq(l, r) ==
    CASE l.t = "Nil" /\ r.t = "Nil" -> TRUE
      [] l.t = "Number" /\ r.t = "Number" -> ~l.nan /\ ~r.nan /\ l.n = r.n
      [] l.t = "Bool" /\ r.t = "Bool" -> l.b = r.b
      [] l.t = "String" /\ r.t = "String" -> l.s = r.s
      [] OTHER -> FALSE

\* impl PartialOrd for Value: an ordering for two numbers only, and none
\* when one of them is NAN
Value_partial_cmp(l, r) ==
    IF l.t = "Number" /\ r.t = "Number" /\ ~l.nan /\ ~r.nan
    THEN (IF l.n < r.n THEN "Less" ELSE IF l.n = r.n THEN "Equal" ELSE "Greater")
    ELSE "None"

Value_equals(l, r) == Value_Bool(Value_eq(l, r))
Value_less_than(l, r) == Value_Bool(Value_partial_cmp(l, r) = "Less")
Value_greater_than(l, r) == Value_Bool(Value_partial_cmp(l, r) = "Greater")

\* Value::is_not
Value_is_not(v) ==
    CASE v.t = "Nil" -> v
      [] v.t = "Bool" -> Value_Bool(~v.b)
      [] v.t = "Number" -> Value_Bool(~v.nan /\ v.n = 0)
      [] OTHER -> Value_Bool(v.s = "")

\* the result of unreachable!() and of panic!(): the thread panics
Value_panic == [t |-> "panic", n |-> 0, nan |-> FALSE, b |-> FALSE, s |-> ""]

\* f64 arithmetic on the integers of the inputs; NAN is absorbing
Value_arith(l, r, n) == IF l.nan \/ r.nan THEN Value_NAN ELSE Value_Number(n)

\* Value::negate
Value_negate(v) == IF v.t = "Number" THEN Value_arith(v, v, 0 - v.n) ELSE Value_panic

\* the text of two lexemes, concatenated
Concat(l, r) == l \o r

\* Value::add: the sum of two numbers, or a new lexeme holding the
\* concatenation of two strings; anything else is unreachable!()
Value_add(l, r) ==
    CASE l.t = "Number" /\ r.t = "Number" -> Value_arith(l, r, l.n + r.n)
      [] l.t = "String" /\ r.t = "String" -> Value_String(Concat(l.s, r.s))
      [] OTHER -> Value_panic

\* Value::subtract and Value::multiply
Value_subtract(l, r) ==
    IF Value_both_numbers(l, r) THEN Value_arith(l, r, l.n - r.n) ELSE Value_panic

Value_multiply(l, r) ==
    IF Value_both_numbers(l, r) THEN Value_arith(l, r, l.n * r.n) ELSE Value_panic

\* Value::divide: NAN when the divisor is 0.0.  The quotient is exact for
\* the operands of the inputs, which divide evenly.
Value_divide(l, r) ==
    IF ~Value_both_numbers(l, r) THEN Value_panic
    ELSE IF ~r.nan /\ r.n = 0 THEN Value_NAN
    ELSE Value_arith(l, r, l.n \div (IF r.n = 0 THEN 1 ELSE r.n))

\* chunk.rs, impl Into<u8> for OpCode: the opcodes in the order of their bytes,
\* Unknown being byte 0
OpCodes ==
    << "Unknown", "Return", "Constant8", "Constant16", "Constant24", "Negate", "Add",
       "Subtract", "Multiply", "Divide", "True", "False", "Nil", "Not", "Equal",
       "Greater", "Less", "Print", "Pop", "DefineGlobal8", "DefineGlobal16",
       "DefineGlobal24", "GetGlobal8", "GetGlobal16", "GetGlobal24", "SetGlobal8",
       "SetGlobal16", "SetGlobal24" >>

OpCode_into_u8(op) == (CHOOSE i \in 1..Len(OpCodes) : OpCodes[i] = op) - 1

\* impl From<u8> for OpCode
OpCode_from(b) == IF b + 1 \in 2..Len(OpCodes) THEN OpCodes[b + 1] ELSE "Unknown"

\* OpCode::data_len
OpCode_data_len(op) ==
    CASE op \in {"Constant8", "DefineGlobal8", "GetGlobal8", "SetGlobal8"} -> 1
      [] op \in {"Constant16", "DefineGlobal16", "GetGlobal16", "SetGlobal16"} -> 2
      [] op \in {"Constant24", "DefineGlobal24", "GetGlobal24", "SetGlobal24"} -> 3
      [] OTHER -> 0

\* the three widths of an opcode that takes an index
Constant == << "Constant8", "Constant16", "Constant24" >>
DefineGlobal == << "DefineGlobal8", "DefineGlobal16", "DefineGlobal24" >>
GetGlobal == << "GetGlobal8", "GetGlobal16", "GetGlobal24" >>
SetGlobal == << "SetGlobal8", "SetGlobal16", "SetGlobal24" >>

\* a push that adds an entry only when the line grows
SkipList_push_growing(elems, idx, el) ==
    IF elems = <<>> THEN << <<0, el>> >>
    ELSE IF elems[Len(elems)][2] >= el THEN elems
    ELSE Append(elems, <<idx, el>>)

\* skip.rs, SkipList::push on the pairs (offset, line) of the line table
SkipList_push(elems, idx, el) ==
    IF elems = <<>> THEN << <<0, el>> >>
    ELSE IF elems[Len(elems)][2] = el THEN elems
    ELSE Append(elems, <<idx, el>>)

\* Chunk::default
Chunk_default == [code |-> <<>>, constants |-> <<>>, lines |-> <<>>, panic |-> FALSE]

\* Chunk::write: the line, the opcode byte and the operand bytes
Chunk_write(ch, ln, op, data) ==
    [ch EXCEPT !.lines = SkipList_push(@, Len(ch.code), ln),
               !.code = (@ \o << OpCode_into_u8(op) >>) \o data]

\* Chunk::write_simple
Chunk_write_simple(ch, ln, op) == Chunk_write(ch, ln, op, <<>>)

\* Chunk::make_const appends the constant; its index is the old length
Chunk_make_const(ch, constant) == [ch EXCEPT !.constants = Append(@, constant)]

MAX_8 == 255
MAX_16 == 65535
MAX_24 == MAX_16 * 8

\* NativeEndian::write_u16 and write_u24 on a little-endian target
Bytes16(x) == << x % 256, x \div 256 >>
Bytes24(x) == << x % 256, (x \div 256) % 256, x \div 65536 >>

\* Chunk::write_idx: the narrowest opcode of ops that holds idx
Chunk_write_idx(ch, ln, ops, idx) ==
    IF idx <= MAX_8 THEN Chunk_write(ch, ln, ops[1], << idx >>)
    ELSE IF idx <= MAX_16 THEN Chunk_write(ch, ln, ops[2], Bytes16(idx))
    ELSE IF idx < MAX_24 THEN Chunk_write(ch, ln, ops[3], Bytes24(idx))
    ELSE [ch EXCEPT !.panic = TRUE]

\* Chunk::write_const
Chunk_write_const(ch, ln, constant) ==
    Chunk_write_idx(Chunk_make_const(ch, constant), ln, Constant, Len(ch.constants))

\* chunk.rs, bytes_to_usize
bytes_to_usize(bytes) ==
    CASE Len(bytes) = 1 -> bytes[1]
      [] Len(bytes) = 2 -> bytes[1] + 256 * bytes[2]
      [] Len(bytes) = 3 -> bytes[1] + 256 * bytes[2] + 65536 * bytes[3]
      [] OTHER -> 0 - 1

\* Chunk::read: the instruction at an offset below code.len()
Chunk_read(ch, offset) ==
    With([op \in {OpCode_from(ch.code[offset + 1])} |->
        [op |-> op,
         data |-> SubSeq(ch.code, offset + 2, offset + 1 + OpCode_data_len(op))]])

\* Instruction::len
Instruction_len(inst) == 1 + Len(inst.data)

\* Chunk::read_const: constants.get(idx).unwrap()
Chunk_read_const(ch, idx) ==
    IF idx + 1 \in 1..Len(ch.constants) THEN ch.constants[idx + 1] ELSE Value_panic

\* compiler.rs, enum Precedence, in its declared order
Precedence ==
    [None |-> 0, Assignment |-> 1, Or |-> 2, And |-> 3, Equality |-> 4, Comparison |-> 5,
     Term |-> 6, Factor |-> 7, Unary |-> 8, Call |-> 9, Primary |-> 10]

\* Precedence::next
Precedence_next(p) == IF p = Precedence.Primary THEN p ELSE p + 1

\* impl From<TokenType> for Precedence
Precedence_from(typ) ==
    CASE typ \in {"LeftParen", "Dot"} -> Precedence.Call
      [] typ \in {"Minus", "Plus"} -> Precedence.Term
      [] typ \in {"Slash", "Star"} -> Precedence.Factor
      [] typ \in {"BangEqual", "EqualEqual"} -> Precedence.Equality
      [] typ \in {"Greater", "GreaterEqual", "Less", "LessEqual"} -> Precedence.Comparison
      [] typ = "And" -> Precedence.And
      [] typ = "Or" -> Precedence.Or
      [] OTHER -> Precedence.None

\* the scanner of the bytecode pipeline: an iterator over the tokens of the
\* source, error tokens included, that yields None after the last one
Scanner_new(source) == [toks |-> source, pos |-> 0]

Scanner_next(sc) == IF sc.pos < Len(sc.toks) THEN sc.toks[sc.pos + 1] ELSE NoToken

\* Compiler::new.  errors counts the calls of Compiler::error, k is "hang"
\* once a loop of the compiler runs without end.
Compiler_new(source) ==
    [scanner |-> Scanner_new(source), chunk |-> Chunk_default,
     previous |-> NoToken, current |-> NoToken,
     has_error |-> FALSE, panic_mode |-> FALSE, errors |-> 0, k |-> "ok"]

\* Compiler::error: nothing but the count changes in panic mode
Compiler_error(c) ==
    IF c.panic_mode THEN [c EXCEPT !.errors = @ + 1]
    ELSE [c EXCEPT !.errors = @ + 1, !.panic_mode = TRUE, !.has_error = TRUE]

\* Compiler::advance, the loop: the next token becomes current; an error
\* token is reported and skipped
RECURSIVE Compiler_advance_loop(_)
Compiler_advance_loop(c) ==
    With([d \in {[c EXCEPT !.current = Scanner_next(c.scanner),
                           !.scanner.pos = IF @ < Len(c.scanner.toks) THEN @ + 1 ELSE @]} |->
        IF d.current.typ = "Error" THEN Compiler_advance_loop(Compiler_error(d)) ELSE d])

\* Compiler::advance
Compiler_advance(c) ==
    Compiler_advance_loop([c EXCEPT !.previous = c.current, !.current = NoToken])

\* Compiler::check
Compiler_check(c, typ) == c.current # NoToken /\ c.current.typ = typ

\* Compiler::matches: the compiler after the call; the value returned is
\* Compiler_check before it
Compiler_matches(c, typ) == IF Compiler_check(c, typ) THEN Compiler_advance(c) ELSE c

\* Compiler::consume
Compiler_consume(c, typ) ==
    IF Compiler_check(c, typ) THEN Compiler_advance(c) ELSE Compiler_error(c)

\* Compiler::opt_typ, prev_type, curr_type and prev_line
Compiler_opt_typ(tkn) == IF tkn = NoToken THEN "Error" ELSE tkn.typ
Compiler_prev_type(c) == Compiler_opt_typ(c.previous)
Compiler_curr_type(c) == Compiler_opt_typ(c.current)
Compiler_prev_line(c) == IF c.previous = NoToken THEN 0 ELSE c.previous.ln

\* Compiler::write_simple and write_simple2
Compiler_write_simple(c, op) ==
    [c EXCEPT !.chunk = Chunk_write_simple(@, Compiler_prev_line(c), op)]

Compiler_write_simple2(c, op1, op2) ==
    Compiler_write_simple(Compiler_write_simple(c, op1), op2)

\* self.chunk.write_idx(self.prev_line(), ops, idx)
Compiler_write_idx(c, ops, idx) ==
    [c EXCEPT !.chunk = Chunk_write_idx(@, Compiler_prev_line(c), ops, idx)]

\* the decimal numerals the sources use, numeral i at place i + 1
Numerals == << "0", "1", "2", "3", "4", "5", "6", "7", "8", "9" >>

\* str::parse::<f64>().unwrap_or(NAN) on the lexeme of a number token
ParseNumber(lex) ==
    IF \E i \in 1..Len(Numerals) : Numerals[i] = lex
    THEN Value_Number((CHOOSE i \in 1..Len(Numerals) : Numerals[i] = lex) - 1)
    ELSE Value_NAN

\* the texts of the string literals the sources use
StringTexts == {"", "a", "b"}

\* the lexeme of a string token: the text between its quotes
Quoted(text) == ("\"" \o text) \o "\""

\* Compiler::string trims the quotes: start += 1, length -= 2
TrimQuotes(lex) == CHOOSE text \in StringTexts : Quoted(text) = lex

\* Compiler::number
Compiler_number(c) ==
    [c EXCEPT !.chunk = Chunk_write_const(@, Compiler_prev_line(c), ParseNumber(c.previous.lex))]

\* Compiler::literal
Compiler_literal(c) ==
    Compiler_write_simple(c, CASE Compiler_prev_type(c) = "True" -> "True"
                               [] Compiler_prev_type(c) = "False" -> "False"
                               [] OTHER -> "Nil")

\* Compiler::string
Compiler_string(c) ==
    [c EXCEPT !.chunk = Chunk_write_const(@, Compiler_prev_line(c),
                                          Value_String(TrimQuotes(c.previous.lex)))]

\* self.chunk.make_const(lex.into()) on the lexeme of the previous token
Compiler_make_const(c) ==
    [c EXCEPT !.chunk = Chunk_make_const(@, Value_String(c.previous.lex))]

RECURSIVE Compiler_parse_precedence(_, _)

\* Compiler::expression
Compiler_expression(c) == Compiler_parse_precedence(c, Precedence.Assignment)

\* Compiler::grouping
Compiler_grouping(c) == Compiler_consume(Compiler_expression(c), "RightParen")

\* Compiler::unary
Compiler_unary(c) ==
    Compiler_write_simple(Compiler_parse_precedence(c, Precedence.Unary),
                          IF Compiler_prev_type(c) = "Minus" THEN "Negate" ELSE "Not")

\* Compiler::binary
Compiler_binary(c) ==
    With([op \in {Compiler_prev_type(c)} |->
    With([d \in {Compiler_parse_precedence(c, Precedence_next(Precedence_from(op)))} |->
        CASE op = "Plus" -> Compiler_write_simple(d, "Add")
          [] op = "Minus" -> Compiler_write_simple(d, "Subtract")
          [] op = "Star" -> Compiler_write_simple(d, "Multiply")
          [] op = "Slash" -> Compiler_write_simple(d, "Divide")
          [] op = "EqualEqual" -> Compiler_write_simple(d, "Equal")
          [] op = "BangEqual" -> Compiler_write_simple2(d, "Equal", "Not")
          [] op = "Greater" -> Compiler_write_simple(d, "Greater")
          [] op = "GreaterEqual" -> Compiler_write_simple2(d, "Less", "Not")
          [] op = "Less" -> Compiler_write_simple(d, "Less")
          [] OTHER -> Compiler_write_simple2(d, "Greater", "Not")])])

\* Compiler::variable and Compiler::named_variable
Compiler_named_variable(c, can_assign) ==
    With([idx \in {Len(c.chunk.constants)} |->
    With([d \in {Compiler_make_const(c)} |->
        IF can_assign /\ Compiler_check(d, "Equal")
        THEN Compiler_write_idx(Compiler_expression(Compiler_advance(d)), SetGlobal, idx)
        ELSE Compiler_write_idx(d, GetGlobal, idx)])])

\* the token types Compiler::call_prefix has a rule for
PrefixTypes ==
    {"LeftParen", "Minus", "Bang", "Number", "True", "False", "Nil", "String", "Identifier"}

\* Compiler::call_prefix for a type of PrefixTypes
Compiler_call_prefix(c, typ, can_assign) ==
    CASE typ = "LeftParen" -> Compiler_grouping(c)
      [] typ \in {"Minus", "Bang"} -> Compiler_unary(c)
      [] typ = "Number" -> Compiler_number(c)
      [] typ \in {"True", "False", "Nil"} -> Compiler_literal(c)
      [] typ = "String" -> Compiler_string(c)
      [] OTHER -> Compiler_named_variable(c, can_assign)

\* Compiler::call_infix
Compiler_call_infix(c, typ) ==
    IF typ \in {"Minus", "Plus", "Slash", "Star", "BangEqual", "EqualEqual",
                "Greater", "GreaterEqual", "Less", "LessEqual"}
    THEN Compiler_binary(c)
    ELSE c

\* Compiler::parse_precedence, the loop over the infix operators
RECURSIVE Compiler_infix_loop(_, _)
Compiler_infix_loop(c, prec) ==
    IF prec <= Precedence_from(Compiler_curr_type(c))
    THEN With([d \in {Compiler_advance(c)} |->
             Compiler_infix_loop(Compiler_call_infix(d, Compiler_prev_type(d)), prec)])
    ELSE c

\* Compiler::parse_precedence
Compiler_parse_precedence(c, prec) ==
    With([d \in {Compiler_advance(c)} |->
    With([can_assign \in {prec <= Precedence.Assignment} |->
        IF Compiler_prev_type(d) \notin PrefixTypes
        THEN Compiler_error(d)
        ELSE With([e \in {Compiler_infix_loop(
                              Compiler_call_prefix(d, Compiler_prev_type(d), can_assign),
                              prec)} |->
                 IF can_assign /\ Compiler_check(e, "Equal")
                 THEN Compiler_expression(Compiler_error(Compiler_advance(e)))
                 ELSE e])])])

\* Compiler::print_statement
Compiler_print_statement(c) ==
    Compiler_write_simple(Compiler_consume(Compiler_expression(c), "Semicolon"), "Print")

\* Compiler::expression_statement
Compiler_expression_statement(c) ==
    Compiler_write_simple(Compiler_consume(Compiler_expression(c), "Semicolon"), "Pop")

\* Compiler::statement
Compiler_statement(c) ==
    IF Compiler_check(c, "Print")
    THEN Compiler_print_statement(Compiler_advance(c))
    ELSE Compiler_expression_statement(c)

\* Compiler::variable_declaration, with parse_variable, identifier_const
\* and define_variable
Compiler_variable_declaration(c) ==
    With([d \in {Compiler_consume(c, "Identifier")} |->
    With([idx \in {Len(d.chunk.constants)} |->
    With([e \in {Compiler_make_const(d)} |->
        Compiler_write_idx(
            Compiler_consume(IF Compiler_check(e, "Equal")
                             THEN Compiler_expression(Compiler_advance(e))
                             ELSE Compiler_write_simple(e, "Nil"),
                             "Semicolon"),
            DefineGlobal, idx)])])])

\* the token types Compiler::synchronize stops before
StatementStart == {"Class", "Fun", "Var", "For", "If", "While", "Print", "Return"}

\* Compiler::synchronize.  The body of its loop changes neither previous nor
\* current: an iteration that does not return is followed by the same
\* iteration, without end.
Compiler_synchronize(c) ==
    IF ~c.has_error THEN c
    ELSE With([d \in {[c EXCEPT !.has_error = FALSE]} |->
        IF d.current = NoToken THEN Compiler_advance(d)
        ELSE IF d.previous.typ = "Semicolon" THEN d
        ELSE IF d.current.typ \in StatementStart THEN d
        ELSE [d EXCEPT !.k = "hang"]])

\* Compiler::declaration
Compiler_declaration(c) ==
    Compiler_synchronize(IF Compiler_check(c, "Var")
                         THEN Compiler_variable_declaration(Compiler_advance(c))
                         ELSE Compiler_statement(c))

\* Compiler::compile, the loop over the declarations
RECURSIVE Compiler_compile_loop(_)
Compiler_compile_loop(c) ==
    IF c.k # "ok" \/ c.current = NoToken THEN c
    ELSE Compiler_compile_loop(Compiler_declaration(c))

\* Compiler::compile: the compiler at its end and what it returns, "Ok"
\* with the chunk or "Err"; "hang" when it does not return
Compiler_compile(source) ==
    With([c \in {Compiler_compile_loop(Compiler_advance(Compiler_new(source)))} |->
        [c |-> c,
         ret |-> IF c.k # "ok" THEN c.k ELSE IF c.has_error THEN "Err" ELSE "Ok"]])

\* VM::new: the value stack and the globals table; out is what Print wrote
\* to stdout
VM_new == [stack |-> <<>>, globals |-> [x \in {} |-> Value_Nil], out |-> <<>>]

\* how one turn of the loop of VMExecution::run ends: "next" when the loop
\* goes on, "Ok" or the Error when run returns, "panic" when it panics
Step(vm, res) == [vm |-> vm, res |-> res]

\* the stack without its last value
Popped(stack) == SubSeq(stack, 1, Len(stack) - 1)

\* VMExecution::push
VMExecution_push(vm, v) == Step([vm EXCEPT !.stack = Append(@, v)], "next")

\* the check a unary opcode hands to run_unary_op, and its operation
UnaryCheck(op, v) == IF op = "Negate" THEN Value_is_number(v) ELSE Value_any(v)
UnaryOp(op, v) == IF op = "Negate" THEN Value_negate(v) ELSE Value_is_not(v)

\* VMExecution::run_unary_op
VMExecution_run_unary_op(vm, op) ==
    IF vm.stack = <<>> THEN Step(vm, "Runtime")
    ELSE IF ~UnaryCheck(op, vm.stack[Len(vm.stack)]) THEN Step(vm, "MustBeANumber")
    ELSE With([v \in {UnaryOp(op, vm.stack[Len(vm.stack)])} |->
        IF v = Value_panic THEN Step(vm, "panic")
        ELSE Step([vm EXCEPT !.stack[Len(vm.stack)] = v], "next")])

\* the check a binary opcode hands to run_binary_op, and its operation
BinaryCheck(op, l, r) ==
    IF op \in {"Add", "Equal"} THEN Value_both_any(l, r) ELSE Value_both_numbers(l, r)

BinaryOp(op, l, r) ==
    CASE op = "Add" -> Value_add(l, r)
      [] op = "Subtract" -> Value_subtract(l, r)
      [] op = "Multiply" -> Value_multiply(l, r)
      [] op = "Divide" -> Value_divide(l, r)
      [] op = "Equal" -> Value_equals(l, r)
      [] op = "Greater" -> Value_greater_than(l, r)
      [] OTHER -> Value_less_than(l, r)

\* VMExecution::run_binary_op: the check sees both operands on the stack;
\* the right one is popped and the left one replaced by the result
VMExecution_run_binary_op(vm, op) ==
    IF Len(vm.stack) < 2 THEN Step(vm, "Runtime")
    ELSE With([l \in {vm.stack[Len(vm.stack) - 1]} |->
         With([r \in {vm.stack[Len(vm.stack)]} |->
            IF ~BinaryCheck(op, l, r) THEN Step(vm, "MustBeANumber")
            ELSE With([v \in {BinaryOp(op, l, r)} |->
                IF v = Value_panic THEN Step([vm EXCEPT !.stack = Popped(@)], "panic")
                ELSE Step([vm EXCEPT !.stack = Append(Popped(Popped(@)), v)], "next")])])])

\* HashMap::insert on the globals table
Insert(globals, name, v) ==
    [x \in (DOMAIN globals) \cup {name} |-> IF x = name THEN v ELSE globals[x]]

\* VMExecution::run, arm DefineGlobal: the popped value is bound to the name
DefineGlobalArm(vm, name) ==
    IF vm.stack = <<>> THEN Step(vm, "Runtime")
    ELSE Step([vm EXCEPT !.stack = Popped(@),
                         !.globals = Insert(@, name, vm.stack[Len(vm.stack)])], "next")

\* VMExecution::run, arm GetGlobal
GetGlobalArm(vm, name) ==
    IF name \notin DOMAIN vm.globals THEN Step(vm, "UndefinedVariable")
    ELSE VMExecution_push(vm, vm.globals[name])

\* a SetGlobal arm that pops the value it stores
SetGlobalArm_pop(vm, name) ==
    IF vm.stack = <<>> THEN Step(vm, "Runtime")
    ELSE IF name \notin DOMAIN vm.globals THEN Step(vm, "UndefinedVariable")
    ELSE Step([vm EXCEPT !.globals = Insert(@, name, vm.stack[Len(vm.stack)]),
                         !.stack = Popped(@)], "next")

\* VMExecution::run, arm SetGlobal: the value stays on the stack
SetGlobalArm(vm, name) ==
    IF vm.stack = <<>> THEN Step(vm, "Runtime")
    ELSE IF name \notin DOMAIN vm.globals THEN Step(vm, "UndefinedVariable")
    ELSE Step([vm EXCEPT !.globals = Insert(@, name, vm.stack[Len(vm.stack)])], "next")

\* VMExecution::run, the arms of the opcodes that take an index: the
\* constant is read first; into_lex and lex panic unless it is a string
IndexArm(vm, ch, op, idx) ==
    With([c \in {Chunk_read_const(ch, idx)} |->
        IF c = Value_panic THEN Step(vm, "panic")
        ELSE IF op \in {"Constant8", "Constant16", "Constant24"} THEN VMExecution_push(vm, c)
        ELSE IF c.t # "String" THEN Step(vm, "panic")
        ELSE IF op \in {"DefineGlobal8", "DefineGlobal16", "DefineGlobal24"}
             THEN DefineGlobalArm(vm, c.s)
        ELSE IF op \in {"GetGlobal8", "GetGlobal16", "GetGlobal24"}
             THEN GetGlobalArm(vm, c.s)
        ELSE SetGlobalArm(vm, c.s)])

\* VMExecution::run, the match on the opcode of one instruction
VMExecution_run_inst(vm, ch, inst) ==
    CASE inst.op = "Unknown" -> Step(vm, "Runtime")
      [] inst.op = "Return" -> Step(vm, "Ok")
      [] OpCode_data_len(inst.op) > 0 -> IndexArm(vm, ch, inst.op, bytes_to_usize(inst.data))
      [] inst.op = "True" -> VMExecution_push(vm, Value_Bool(TRUE))
      [] inst.op = "False" -> VMExecution_push(vm, Value_Bool(FALSE))
      [] inst.op = "Nil" -> VMExecution_push(vm, Value_Nil)
      [] inst.op \in {"Not", "Negate"} -> VMExecution_run_unary_op(vm, inst.op)
      [] inst.op \in {"Add", "Subtract", "Multiply", "Divide", "Equal", "Greater", "Less"} ->
            VMExecution_run_binary_op(vm, inst.op)
      [] inst.op = "Print" ->
            IF vm.stack = <<>> THEN Step(vm, "Runtime")
            ELSE Step([vm EXCEPT !.stack = Popped(@),
                                 !.out = Append(@, vm.stack[Len(vm.stack)])], "next")
      [] OTHER ->
            IF vm.stack = <<>> THEN Step(vm, "Runtime")
            ELSE Step([vm EXCEPT !.stack = Popped(@)], "next")

\* the text of the tokens that are no identifier, number or string; "@" is
\* a character the scanner has no token for
Lexemes ==
    << <<"Var", "var">>, <<"Print", "print">>, <<"Semicolon", ";">>, <<"Equal", "=">>,
       <<"Plus", "+">>, <<"Minus", "-">>, <<"Star", "*">>, <<"Slash", "/">>,
       <<"Bang", "!">>, <<"LeftParen", "(">>, <<"RightParen", ")">>,
       <<"EqualEqual", "==">>, <<"BangEqual", "!=">>, <<"Less", "<">>,
       <<"LessEqual", "<=">>, <<"Greater", ">">>, <<"GreaterEqual", ">=">>,
       <<"True", "true">>, <<"False", "false">>, <<"Nil", "nil">>, <<"Error", "@">> >>

LexemeOf(typ) == Lexemes[CHOOSE i \in 1..Len(Lexemes) : Lexemes[i][1] = typ][2]

\* the tokens of the sources handed to the compiler, all on line 1
TK(typ) == Token_new(typ, LexemeOf(typ), 1)
TId(name) == Token_new("Identifier", name, 1)
TNum(lex) == Token_new("Number", lex, 1)
TStr(text) == Token_new("String", Quoted(text), 1)

\* var a = 1; var b; print a + 2;
SrcDefine ==
    << TK("Var"), TId("a"), TK("Equal"), TNum("1"), TK("Semicolon"),
       TK("Var"), TId("b"), TK("Semicolon"),
       TK("Print"), TId("a"), TK("Plus"), TNum("2"), TK("Semicolon") >>

\* a = a + 1; print a;
SrcAssign ==
    << TId("a"), TK("Equal"), TId("a"), TK("Plus"), TNum("1"), TK("Semicolon"),
       TK("Print"), TId("a"), TK("Semicolon") >>

\* var a = "a"; print a + "b";
SrcRedefine ==
    << TK("Var"), TId("a"), TK("Equal"), TStr("a"), TK("Semicolon"),
       TK("Print"), TId("a"), TK("Plus"), TStr("b"), TK("Semicolon") >>

\* print c;
SrcGetAbsent == << TK("Print"), TId("c"), TK("Semicolon") >>

\* c = 1;
SrcSetAbsent == << TId("c"), TK("Equal"), TNum("1"), TK("Semicolon") >>

\* c = ;
SrcSetNothing == << TId("c"), TK("Equal"), TK("Semicolon") >>

\* print <l> + <r>;
SrcAdd(l, r) == << TK("Print"), l, TK("Plus"), r, TK("Semicolon") >>

\* print 2;
SrcAfter == << TK("Print"), TNum("2"), TK("Semicolon") >>

\* print ; print 1;
SrcErrFirst == << TK("Print"), TK("Semicolon"), TK("Print"), TNum("1"), TK("Semicolon") >>

\* print 1; print ;
SrcErrLater == << TK("Print"), TNum("1"), TK("Semicolon"), TK("Print"), TK("Semicolon") >>

\* @
SrcErrOnly == << TK("Error") >>

\* @ print 1;
SrcErrToken == << TK("Error"), TK("Print"), TNum("1"), TK("Semicolon") >>

\* print 1 2;
SrcErrMiddle == << TK("Print"), TNum("1"), TNum("2"), TK("Semicolon") >>

\* 1 = 2;
SrcBadAssign == << TNum("1"), TK("Equal"), TNum("2"), TK("Semicolon") >>

\* var = 1;
SrcVarNoName == << TK("Var"), TK("Equal"), TNum("1"), TK("Semicolon") >>

\* print 1
SrcNoSemicolon == << TK("Print"), TNum("1") >>

\* print -"a";
SrcNegateString == << TK("Print"), TK("Minus"), TStr("a"), TK("Semicolon") >>

\* print -(1 + 2) * 4 / 2 - 1 == 0 - 7; print !(1 < 2); print 1 >= 2 != true;
\* print 1 <= 1; print 2 > 1; print nil == false; print 1 / 0;
SrcOperators ==
    << TK("Print"), TK("Minus"), TK("LeftParen"), TNum("1"), TK("Plus"), TNum("2"),
       TK("RightParen"), TK("Star"), TNum("4"), TK("Slash"), TNum("2"), TK("Minus"),
       TNum("1"), TK("EqualEqual"), TNum("0"), TK("Minus"), TNum("7"), TK("Semicolon"),
       TK("Print"), TK("Bang"), TK("LeftParen"), TNum("1"), TK("Less"), TNum("2"),
       TK("RightParen"), TK("Semicolon"),
       TK("Print"), TNum("1"), TK("GreaterEqual"), TNum("2"), TK("BangEqual"), TK("True"),
       TK("Semicolon"),
       TK("Print"), TNum("1"), TK("LessEqual"), TNum("1"), TK("Semicolon"),
       TK("Print"), TNum("2"), TK("Greater"), TNum("1"), TK("Semicolon"),
       TK("Print"), TK("Nil"), TK("EqualEqual"), TK("False"), TK("Semicolon"),
       TK("Print"), TNum("1"), TK("Slash"), TNum("0"), TK("Semicolon") >>

\* the operands of the sources print <l> + <r>;
AddOperands ==
    << <<TNum("1"), TStr("a")>>, <<TStr("a"), TNum("1")>>, <<TK("Nil"), TNum("1")>>,
       <<TK("True"), TK("False")>>, <<TStr("a"), TK("Nil")>>,
       <<TNum("1"), TNum("2")>>, <<TStr("a"), TStr("b")>> >>

\* print !<x>;
SrcNot(x) == << TK("Print"), TK("Bang"), x, TK("Semicolon") >>

\* the operands of the sources print !<x>;
NotOperands ==
    << TK("Nil"), TK("False"), TNum("0"), TStr(""), TK("True"), TNum("1"), TStr("a") >>

\* the sources one VM is handed, one after the other, one session each
VMSessions ==
    << << SrcDefine, SrcAssign, SrcRedefine, SrcAssign >>,
       << SrcSetAbsent, SrcGetAbsent, SrcDefine, SrcAssign >>,
       << SrcErrFirst, SrcAfter >>,
       << SrcErrLater >>,
       << SrcErrOnly, SrcErrToken >>,
       << SrcErrMiddle >>,
       << SrcBadAssign, SrcNegateString, SrcNoSemicolon, SrcVarNoName >>,
       << SrcOperators >>,
       << SrcSetNothing, SrcDefine, SrcSetNothing >> >>
    \o [i \in 1..Len(AddOperands) |-> << SrcAdd(AddOperands[i][1], AddOperands[i][2]), SrcAfter >>]
    \o << [i \in 1..Len(NotOperands) |-> SrcNot(NotOperands[i])] >>

(***************************************************************************)
(* scanner.rs: the scanner of the tree-walker, over the characters of the  *)
(* source.  A character is a string of length one; NUL is '\0'.            *)
(***************************************************************************)
NUL == "\\0"

\* the digits and the letters of the sources, which hold no capitals
Digits == {"0", "1", "2", "3", "4", "5", "6", "7", "8", "9"}

Letters == {"a", "b", "c", "d", "e", "f", "g", "h", "i", "j", "k", "l", "m", "n", "o",
            "p", "q", "r", "s", "t", "u", "v", "w", "x", "y", "z"}

\* char::is_whitespace
Whitespace == {" ", "\n", "\t", "\r"}

\* scanner.rs, is_alphanumeric: c.is_digit(36) || c == '_'
is_alphanumeric(c) == c \in Digits \cup Letters \cup {"_"}

\* the String the characters make
RECURSIVE Text(_)
Text(chars) == IF chars = <<>> THEN "" ELSE Head(chars) \o Text(Tail(chars))

\* Scanner::new.  panic is set once a call has panicked.
Scan_new(chars) ==
    [src |-> chars, peeks |-> <<>>, lexeme |-> <<>>, line |-> 1, eof |-> FALSE,
     panic |-> FALSE]

\* Option<char>::None
NoChar == "None"

\* Scanner::advance, the value it returns
Scan_advance_char(sc) ==
    IF sc.eof THEN NoChar
    ELSE IF sc.peeks # <<>> THEN Head(sc.peeks)
    ELSE IF sc.src # <<>> THEN Head(sc.src)
    ELSE NUL

\* Scanner::advance, the scanner after it
Scan_advance(sc) ==
    IF sc.eof THEN sc
    ELSE IF sc.peeks # <<>>
         THEN [sc EXCEPT !.peeks = Tail(@), !.lexeme = Append(@, Head(sc.peeks))]
    ELSE IF sc.src # <<>>
         THEN [sc EXCEPT !.src = Tail(@), !.lexeme = Append(@, Head(sc.src))]
    ELSE [sc EXCEPT !.eof = TRUE, !.lexeme = Append(@, NUL)]

\* Scanner::lookahead, the scanner after it: peeks holds n characters
RECURSIVE Scan_lookahead(_, _)
Scan_lookahead(sc, n) ==
    IF Len(sc.peeks) >= n THEN sc
    ELSE IF sc.src # <<>>
         THEN Scan_lookahead([sc EXCEPT !.src = Tail(@), !.peeks = Append(@, Head(sc.src))], n)
    ELSE Scan_lookahead([sc EXCEPT !.peeks = Append(@, NUL)], n)

\* Scanner::peek and Scanner::peek_next, the character
Scan_peek(sc) == Scan_lookahead(sc, 1).peeks[1]
Scan_peek_next(sc) == Scan_lookahead(sc, 2).peeks[2]

\* Scanner::match_advance, the scanner after it; it returns Scan_peek(sc) = c
Scan_match_advance(sc, c) ==
    IF Scan_peek(sc) = c THEN Scan_advance(Scan_lookahead(sc, 1)) ELSE Scan_lookahead(sc, 1)

\* Scanner::advance_until: the scanner after it and the character returned
RECURSIVE Scan_advance_until(_, _, _)
Scan_advance_until(sc, stops, last) ==
    With([p \in {Scan_lookahead(sc, 1)} |->
        IF p.peeks[1] \in stops \/ p.peeks[1] = NUL
        THEN [sc |-> p, last |-> last]
        ELSE Scan_advance_until(Scan_advance(p), stops, p.peeks[1])])

\* what Scanner::next returns: None, Some(Ok(token)) or Some(Err(error)),
\* or nothing when it panics
NoItem == [k |-> "None", typ |-> "", lexeme |-> "", line |-> 0, lit |-> ""]
Scan_literal_token(sc, typ, lit) ==
    [k |-> "Ok", typ |-> typ, lexeme |-> Text(sc.lexeme), line |-> sc.line, lit |-> lit]
Scan_static_token(sc, typ) == Scan_literal_token(sc, typ, "")
Scan_err(sc, msg) ==
    [k |-> "Err", typ |-> msg, lexeme |-> Text(sc.lexeme), line |-> sc.line, lit |-> ""]
PanicItem == [k |-> "panic", typ |-> "", lexeme |-> "", line |-> 0, lit |-> ""]

\* a scanner and the item a call returns
Scanned(sc, item) == [sc |-> sc, item |-> item]

\* Scanner::match_static_token
Scan_match_static_token(sc, c, m, u) ==
    With([p \in {Scan_match_advance(sc, c)} |->
        Scanned(p, Scan_static_token(p, IF Scan_peek(sc) = c THEN m ELSE u))])

\* the lexeme without its last character: String::pop
Scan_pop(sc) == [sc EXCEPT !.lexeme = SubSeq(@, 1, Len(@) - 1)]

\* Scanner::string
RECURSIVE Scan_string(_)
Scan_string(sc) ==
    With([u \in {Scan_advance_until(sc, {"\n", "\""}, NUL)} |->
    With([c \in {Scan_peek(u.sc)} |->
        CASE c = "\n" -> Scan_string(Scan_advance([u.sc EXCEPT !.line = @ + 1]))
          [] c = "\"" /\ u.last = "\\" -> Scan_string(Scan_advance(Scan_pop(u.sc)))
          [] c = "\"" ->
                With([e \in {Scan_advance(u.sc)} |->
                    Scanned(e, Scan_literal_token(e, "String",
                                   Text(SubSeq(e.lexeme, 2, Len(e.lexeme) - 1))))])
          [] c = NUL -> Scanned(u.sc, Scan_err(u.sc, "unterminated string"))
          [] OTHER -> Scanned(u.sc, Scan_err(u.sc, "unexpected character"))])])

\* while self.peek().is_digit(10) { self.advance(); }
RECURSIVE Scan_digits(_)
Scan_digits(sc) ==
    With([p \in {Scan_lookahead(sc, 1)} |->
        IF p.peeks[1] \in Digits THEN Scan_digits(Scan_advance(p)) ELSE p])

\* Scanner::number; the lexeme of digits with at most one point always
\* parses, and the literal is kept as its text
Scan_number(sc) ==
    With([p \in {Scan_digits(sc)} |->
    With([q \in {IF Scan_peek(p) = "." /\ Scan_peek_next(p) \in Digits
                 THEN Scan_digits(Scan_advance(Scan_lookahead(p, 2)))
                 ELSE IF Scan_peek(p) = "." THEN Scan_lookahead(p, 2)
                 ELSE p} |->
        Scanned(q, Scan_literal_token(q, "Number", Text(q.lexeme)))])])

\* token.rs, reserved
ReservedWords ==
    << <<"and", "And">>, <<"class", "Class">>, <<"else", "Else">>, <<"false", "False">>,
       <<"for", "For">>, <<"fun", "Fun">>, <<"if", "If">>, <<"nil", "Nil">>, <<"or", "Or">>,
       <<"print", "Print">>, <<"return", "Return">>, <<"super", "Super">>,
       <<"this", "This">>, <<"true", "True">>, <<"var", "Var">>, <<"while", "While">>,
       <<"break", "Break">> >>

reserved(ident) ==
    IF \E i \in 1..Len(ReservedWords) : ReservedWords[i][1] = ident
    THEN ReservedWords[CHOOSE i \in 1..Len(ReservedWords) : ReservedWords[i][1] = ident][2]
    ELSE "Identifier"

\* while is_alphanumeric(self.peek()) { self.advance(); }
RECURSIVE Scan_alphanumerics(_)
Scan_alphanumerics(sc) ==
    With([p \in {Scan_lookahead(sc, 1)} |->
        IF is_alphanumeric(p.peeks[1]) THEN Scan_alphanumerics(Scan_advance(p)) ELSE p])

\* Scanner::identifier
Scan_identifier(sc) ==
    With([p \in {Scan_alphanumerics(sc)} |->
    With([typ \in {reserved(Text(p.lexeme))} |->
        Scanned(p, Scan_literal_token(p, typ,
                       IF typ \in {"Nil", "True", "False"} THEN Text(p.lexeme) ELSE ""))])])

\* Scanner::line_comment
Scan_line_comment(sc) ==
    [Scan_advance_until(sc, {"\n"}, NUL).sc EXCEPT !.lexeme = <<>>]

\* Scanner::block_comment, its loop
RECURSIVE Scan_block_comment_loop(_)
Scan_block_comment_loop(sc) ==
    With([u \in {Scan_advance_until(sc, {"\n", "/"}, NUL)} |->
    With([c \in {Scan_peek(u.sc)} |->
        CASE c = "\n" -> Scan_block_comment_loop(Scan_advance([u.sc EXCEPT !.line = @ + 1]))
          [] u.last = "*" /\ c = "/" -> Scan_advance(Scan_advance(u.sc))
          [] c = NUL -> u.sc
          [] OTHER -> Scan_block_comment_loop(Scan_advance(u.sc))])])

\* Scanner::block_comment
Scan_block_comment(sc) ==
    [Scan_block_comment_loop(Scan_advance(sc)) EXCEPT !.lexeme = <<>>]

\* the characters that are a token of their own
StaticChars ==
    << <<"(", "LeftParen">>, <<")", "RightParen">>, <<"{", "LeftBrace">>,
       <<"}", "RightBrace">>, <<",", "Comma">>, <<".", "Dot">>, <<"-", "Minus">>,
       <<"+", "Plus">>, <<";", "Semicolon">>, <<"*", "Star">> >>

\* the characters that are a token with and without a following '='
MatchChars ==
    << <<"!", "BangEqual", "Bang">>, <<"=", "EqualEqual", "Equal">>,
       <<"<", "LessEqual", "Less">>, <<">", "GreaterEqual", "Greater">> >>

\* Scanner::next, its loop: self.advance().unwrap() panics on None
RECURSIVE Scan_next_loop(_)
Scan_next_loop(sc) ==
    With([c \in {Scan_advance_char(sc)} |->
    With([p \in {Scan_advance(sc)} |->
        CASE c = NoChar -> Scanned([sc EXCEPT !.panic = TRUE], PanicItem)
          [] c = NUL -> Scanned([p EXCEPT !.eof = TRUE],
                                Scan_static_token([p EXCEPT !.eof = TRUE], "EOF"))
          [] \E i \in 1..Len(StaticChars) : StaticChars[i][1] = c ->
                Scanned(p, Scan_static_token(p,
                    StaticChars[CHOOSE i \in 1..Len(StaticChars) : StaticChars[i][1] = c][2]))
          [] \E i \in 1..Len(MatchChars) : MatchChars[i][1] = c ->
                With([m \in {MatchChars[CHOOSE i \in 1..Len(MatchChars) :
                                            MatchChars[i][1] = c]} |->
                    Scan_match_static_token(p, "=", m[2], m[3])])
          [] c = "\"" -> Scan_string(p)
          [] c = "/" ->
                With([n \in {Scan_peek(p)} |->
                    IF n = "/" THEN Scan_next_loop(Scan_line_comment(Scan_lookahead(p, 1)))
                    ELSE IF n = "*" THEN Scan_next_loop(Scan_block_comment(Scan_lookahead(p, 1)))
                    ELSE Scanned(Scan_lookahead(p, 1), Scan_static_token(p, "Slash"))])
          [] c \in Whitespace ->
                Scan_next_loop([p EXCEPT !.lexeme = <<>>,
                                         !.line = IF c = "\n" THEN @ + 1 ELSE @])
          [] c \in Digits -> Scan_number(p)
          [] is_alphanumeric(c) -> Scan_identifier(p)
          [] OTHER -> Scanned(p, Scan_err(p, "unexpected character"))])])

\* Scanner::next
Scan_next(sc) ==
    IF sc.eof THEN Scanned(sc, NoItem)
    ELSE Scan_next_loop([sc EXCEPT !.lexeme = <<>>])

\* 1 + 2;
ScArith ==
    << "1", " ", "+", " ", "2", ";" >>

\* @ 1
ScBadChar ==
    << "@", " ", "1" >>

\* "ab
ScOpenString ==
    << "\"", "a", "b" >>

\* /* c */1
ScCommentDigit ==
    << "/", "*", " ", "c", " ", "*", "/", "1" >>

\* /* c */\n1
ScCommentNewline ==
    << "/", "*", " ", "c", " ", "*", "/", "\n", "1" >>

\* /* c */ 1
ScCommentSpace ==
    << "/", "*", " ", "c", " ", "*", "/", " ", "1" >>

\* /* c */
ScCommentEnd ==
    << "/", "*", " ", "c", " ", "*", "/" >>

\* 1 /* c
ScCommentOpen ==
    << "1", " ", "/", "*", " ", "c" >>

\* /* a\nb */ x
ScCommentLines ==
    << "/", "*", " ", "a", "\n", "b", " ", "*", "/", " ", "x" >>

\* // c\nvar x = 1.5;
ScLineComment ==
    << "/", "/", " ", "c", "\n", "v", "a", "r", " ", "x", " ", "=", " ", "1", ".", "5",
       ";" >>

\* a <= b != c
ScMatch ==
    << "a", " ", "<", "=", " ", "b", " ", "!", "=", " ", "c" >>

\* "a\"b" "a\nb"
ScStrings ==
    << "\"", "a", "\\", "\"", "b", "\"", " ", "\"", "a", "\n", "b", "\"" >>

\* x / 2 /**/ 3
ScSlash ==
    << "x", " ", "/", " ", "2", " ", "/", "*", "*", "/", " ", "3" >>

\* /*/ 1 */ 2
ScCommentSlash ==
    << "/", "*", "/", " ", "1", " ", "*", "/", " ", "2" >>

\* print nil; true
ScWords ==
    << "p", "r", "i", "n", "t", " ", "n", "i", "l", ";", " ", "t", "r", "u", "e" >>

\* (the empty source)
ScEmpty ==
    << >>

\* the sources handed to the scanner
ScanSources ==
    << ScArith, ScBadChar, ScOpenString, ScCommentDigit,
       ScCommentNewline, ScCommentSpace, ScCommentEnd, ScCommentOpen,
       ScCommentLines, ScLineComment, ScMatch, ScStrings,
       ScSlash, ScCommentSlash, ScWords, ScEmpty >>

(***************************************************************************)
(* parser.rs: the tree-walker's parser over the items of a scanner.  An    *)
(* item is written as the type of its token, "Err" for a lexical error,    *)
(* and the parser as the number p of the item it peeks.  A rule returns    *)
(* the number of the item peeked afterwards, whether it returned Ok and    *)
(* whether the expression built is an Expr::Identifier.                    *)
(***************************************************************************)
\* self.src.peek(): None past the last item
Parser_peek(ts, p) == IF p <= Len(ts) THEN ts[p] ELSE "None"

POk(p) == [p |-> p, ok |-> TRUE, id |-> FALSE]
PErr(p) == [p |-> p, ok |-> FALSE, id |-> FALSE]

\* Parser::check
Parser_check(ts, p, types) == Parser_peek(ts, p) \in types

\* Parser::peek_err: a lexical error is taken from the scanner, the end and
\* an unexpected token are left where they are
Parser_peek_err(ts, p) == PErr(IF Parser_peek(ts, p) = "Err" THEN p + 1 ELSE p)

\* Parser::must_next
Parser_must_next(ts, p, types) ==
    IF Parser_check(ts, p, types) THEN POk(p + 1) ELSE Parser_peek_err(ts, p)

\* the rules call each other through Parse
RECURSIVE Parse(_, _, _)

\* Parser::primary
Parser_primary(ts, p) ==
    IF Parser_check(ts, p, {"Nil", "True", "False", "String", "Number", "Identifier"})
    THEN [p |-> p + 1, ok |-> TRUE, id |-> ts[p] = "Identifier"]
    ELSE IF Parser_check(ts, p, {"LeftParen"})
    THEN With([e \in {Parse(ts, p + 1, "expression")} |->
            IF ~e.ok THEN e ELSE Parser_must_next(ts, e.p, {"RightParen"})])
    ELSE Parser_peek_err(ts, p)

\* Parser::finish_call, its loop over the arguments
RECURSIVE Parser_finish_call_loop(_, _, _)
Parser_finish_call_loop(ts, p, args) ==
    IF args >= 8 THEN PErr(p)
    ELSE With([e \in {Parse(ts, p, "expression")} |->
            IF ~e.ok THEN e
            ELSE IF Parser_check(ts, e.p, {"Comma"})
            THEN Parser_finish_call_loop(ts, e.p + 1, args + 1)
            ELSE POk(e.p)])

\* Parser::finish_call
Parser_finish_call(ts, p) ==
    IF Parser_check(ts, p, {"RightParen"}) THEN POk(p + 1)
    ELSE With([a \in {Parser_finish_call_loop(ts, p, 0)} |->
            IF ~a.ok THEN a ELSE Parser_must_next(ts, a.p, {"RightParen"})])

\* Parser::call, its loop
RECURSIVE Parser_call_loop(_, _)
Parser_call_loop(ts, e) ==
    IF Parser_check(ts, e.p, {"LeftParen"})
    THEN With([c \in {Parser_finish_call(ts, e.p + 1)} |->
            IF ~c.ok THEN c ELSE Parser_call_loop(ts, c)])
    ELSE e

\* Parser::call
Parser_call(ts, p) ==
    With([e \in {Parser_primary(ts, p)} |-> IF ~e.ok THEN e ELSE Parser_call_loop(ts, e)])

\* Parser::unary
RECURSIVE Parser_unary(_, _)
Parser_unary(ts, p) ==
    IF Parser_check(ts, p, {"Bang", "Minus"})
    THEN With([e \in {Parser_unary(ts, p + 1)} |-> [e EXCEPT !.id = FALSE]])
    ELSE Parser_call(ts, p)

\* the operators of logical_or, logical_and, equality, comparison, term and
\* factor
BinaryOperators ==
    << {"Or"}, {"And"}, {"BangEqual", "EqualEqual"},
       {"Greater", "GreaterEqual", "Less", "LessEqual"}, {"Minus", "Plus"},
       {"Star", "Slash"} >>

\* Parser::logical_or to Parser::factor: level l parses an operand of level
\* l + 1, unary after factor, and then operators and operands while one of
\* the operators of the level follows
RECURSIVE Parser_binary(_, _, _), Parser_binary_loop(_, _, _)
Parser_binary(ts, p, l) ==
    IF l > Len(BinaryOperators) THEN Parser_unary(ts, p)
    ELSE With([e \in {Parser_binary(ts, p, l + 1)} |->
            IF ~e.ok THEN e ELSE Parser_binary_loop(ts, e, l)])
Parser_binary_loop(ts, e, l) ==
    IF Parser_check(ts, e.p, BinaryOperators[l])
    THEN With([r \in {Parser_binary(ts, e.p + 1, l + 1)} |->
            IF ~r.ok THEN r ELSE Parser_binary_loop(ts, [r EXCEPT !.id = FALSE], l)])
    ELSE e

Parser_logical_or(ts, p) == Parser_binary(ts, p, 1)

\* Parser::assignment: the `=` is consumed before the target is examined
Parser_assignment(ts, p) ==
    With([e \in {Parser_logical_or(ts, p)} |->
        IF ~e.ok THEN e
        ELSE IF Parser_check(ts, e.p, {"Equal"})
        THEN IF e.id
             THEN With([a \in {Parse(ts, e.p + 1, "assignment")} |-> [a EXCEPT !.id = FALSE]])
             ELSE PErr(e.p + 1)
        ELSE e])

\* Parser::expression
Parser_expression(ts, p) == Parser_assignment(ts, p)

\* an expression and the `;` after it: print_statement and expr_statement
Parser_expr_statement(ts, p) ==
    With([e \in {Parse(ts, p, "expression")} |->
        IF ~e.ok THEN e ELSE Parser_must_next(ts, e.p, {"Semicolon"})])

Parser_print_statement(ts, p) == Parser_expr_statement(ts, p)

\* Parser::decl_statement: without an initializer it returns before the `;`
Parser_decl_statement(ts, p) ==
    With([n \in {Parser_must_next(ts, p, {"Identifier"})} |->
        IF ~n.ok THEN n
        ELSE IF ~Parser_check(ts, n.p, {"Equal"}) THEN POk(n.p)
        ELSE Parser_expr_statement(ts, n.p + 1)])

\* Parser::if_statement
Parser_if_statement(ts, p) ==
    With([l \in {Parser_must_next(ts, p, {"LeftParen"})} |->
        IF ~l.ok THEN l
        ELSE With([e \in {Parse(ts, l.p, "expression")} |->
            IF ~e.ok THEN e
            ELSE With([r \in {Parser_must_next(ts, e.p, {"RightParen"})} |->
                IF ~r.ok THEN r
                ELSE With([t \in {Parse(ts, r.p, "statement")} |->
                    IF ~t.ok THEN t
                    ELSE IF Parser_check(ts, t.p, {"Else"})
                    THEN Parse(ts, t.p + 1, "statement")
                    ELSE t])])])])

\* Parser::while_statement
Parser_while_statement(ts, p) ==
    With([e \in {Parse(ts, p, "expression")} |->
        IF ~e.ok THEN e ELSE Parse(ts, e.p, "statement")])

\* Parser::for_statement: the initializer, the condition, and the increment
\* with the body
Parser_for_init(ts, p) ==
    IF Parser_check(ts, p, {"Semicolon"}) THEN POk(p + 1)
    ELSE IF Parser_check(ts, p, {"Var"}) THEN Parser_decl_statement(ts, p + 1)
    ELSE Parser_expr_statement(ts, p)

Parser_for_cond(ts, p) ==
    IF Parser_check(ts, p, {"Semicolon"}) THEN POk(p + 1)
    ELSE Parser_expr_statement(ts, p)

Parser_for_inc(ts, p) ==
    With([i \in {IF Parser_check(ts, p, {"RightParen"}) THEN POk(p)
                 ELSE Parse(ts, p, "expression")} |->
        IF ~i.ok THEN i
        ELSE With([r \in {Parser_must_next(ts, i.p, {"RightParen"})} |->
            IF ~r.ok THEN r ELSE Parse(ts, r.p, "statement")])])

Parser_for_statement(ts, p) ==
    With([l \in {Parser_must_next(ts, p, {"LeftParen"})} |->
        IF ~l.ok THEN l
        ELSE With([i \in {Parser_for_init(ts, l.p)} |->
            IF ~i.ok THEN i
            ELSE With([c \in {Parser_for_cond(ts, i.p)} |->
                IF ~c.ok THEN c ELSE Parser_for_inc(ts, c.p)])])])

\* Parser::break_statement
Parser_break_statement(ts, p) == Parser_must_next(ts, p, {"Semicolon"})

\* Parser::block_statement
RECURSIVE Parser_block_statement(_, _)
Parser_block_statement(ts, p) ==
    IF Parser_check(ts, p, {"RightBrace"}) THEN POk(p + 1)
    ELSE IF Parser_peek(ts, p) = "None" THEN POk(p)
    ELSE With([s \in {Parse(ts, p, "statement")} |->
            IF ~s.ok THEN s ELSE Parser_block_statement(ts, s.p)])

\* Parser::function, its loop over the parameters
RECURSIVE Parser_function_loop(_, _, _)
Parser_function_loop(ts, p, params) ==
    IF params >= 8 THEN PErr(p)
    ELSE With([n \in {Parser_must_next(ts, p, {"Identifier"})} |->
            IF ~n.ok THEN n
            ELSE IF Parser_check(ts, n.p, {"Comma"})
            THEN Parser_function_loop(ts, n.p + 1, params + 1)
            ELSE n])

\* Parser::function
Parser_function(ts, p) ==
    With([n \in {Parser_must_next(ts, p, {"Identifier"})} |->
        IF ~n.ok THEN n
        ELSE With([l \in {Parser_must_next(ts, n.p, {"LeftParen"})} |->
            IF ~l.ok THEN l
            ELSE With([a \in {IF Parser_check(ts, l.p, {"RightParen"}) THEN POk(l.p)
                              ELSE Parser_function_loop(ts, l.p, 0)} |->
                IF ~a.ok THEN a
                ELSE With([r \in {Parser_must_next(ts, a.p, {"RightParen"})} |->
                    IF ~r.ok THEN r
                    ELSE With([b \in {Parser_must_next(ts, r.p, {"LeftBrace"})} |->
                        IF ~b.ok THEN b ELSE Parser_block_statement(ts, b.p)])])])])])

\* Parser::return_statement
Parser_return_statement(ts, p) ==
    IF Parser_check(ts, p, {"Semicolon"}) THEN POk(p + 1)
    ELSE Parser_expr_statement(ts, p)

\* Parser::statement
Parser_statement(ts, p) ==
    IF ~Parser_check(ts, p, {"Semicolon", "Print", "Var", "LeftBrace", "If", "While",
                             "For", "Break", "Fun", "Return"})
    THEN Parser_expr_statement(ts, p)
    ELSE CASE ts[p] = "Semicolon" -> POk(p + 1)
           [] ts[p] = "Print" -> Parser_print_statement(ts, p + 1)
           [] ts[p] = "Var" -> Parser_decl_statement(ts, p + 1)
           [] ts[p] = "LeftBrace" -> Parser_block_statement(ts, p + 1)
           [] ts[p] = "If" -> Parser_if_statement(ts, p + 1)
           [] ts[p] = "While" -> Parser_while_statement(ts, p + 1)
           [] ts[p] = "For" -> Parser_for_statement(ts, p + 1)
           [] ts[p] = "Break" -> Parser_break_statement(ts, p + 1)
           [] ts[p] = "Fun" -> Parser_function(ts, p + 1)
           [] ts[p] = "Return" -> Parser_return_statement(ts, p + 1)

Parse(ts, p, rule) ==
    CASE rule = "statement" -> Parser_statement(ts, p)
      [] rule = "expression" -> Parser_expression(ts, p)
      [] rule = "assignment" -> Parser_assignment(ts, p)

\* the types before which Parser::synchronize stops
SyncTypes == {"Class", "Fun", "Var", "For", "If", "While", "Print", "Return"}

\* Parser::synchronize: it returns before a lexical error, at the end of the
\* items, and after a `;` that one of SyncTypes follows
RECURSIVE Parser_synchronize(_, _)
Parser_synchronize(ts, p) ==
    IF Parser_peek(ts, p) = "Err" THEN p
    ELSE IF Parser_peek(ts, p) = "None" THEN p
    ELSE IF ts[p] = "Semicolon" /\ Parser_check(ts, p + 1, SyncTypes) THEN p + 1
    ELSE Parser_synchronize(ts, p + 1)

\* Iterator::next for Parser: what it returned, and the items peeked when
\* it was called, when statement() returned and when next() returned
Parser_next(ts, p) ==
    IF Parser_peek(ts, p) = "None" THEN [res |-> "None", from |-> p, at |-> p, to |-> p]
    ELSE IF Parser_check(ts, p, {"EOF"})
    THEN [res |-> "None", from |-> p, at |-> p + 1, to |-> p + 1]
    ELSE With([s \in {Parser_statement(ts, p)} |->
            [res |-> IF s.ok THEN "Ok" ELSE "Err", from |-> p, at |-> s.p,
             to |-> IF s.ok THEN s.p ELSE Parser_synchronize(ts, s.p)]])

(***************************************************************************)
(* run.rs: Runner::file and Runner::run as a state machine.                *)
(*   prog     the source file: an index into Programs                      *)
(*            or, past those, into Sessions: lines read by Runner::prompt  *)
(*   lineNo   the line of the session being run (1 for a file)             *)
(*   pc       the number of items the statement iterator has yielded       *)
(*   phase    "next" before the iterator is advanced, "interpret" between  *)
(*            Resolver::resolve and stmt.accept of the current statement   *)
(*   result   "running", or what Runner::run returned: "Ok" or the arm of  *)
(*            Error, or "panic" when the process panicked                  *)
(*   locals, envs, classes, insts   the interpreter and its heap           *)
(*   stdout   the lines printed; stderr the number of errors reported      *)
(*   log      the history of the visitors                                  *)
(***************************************************************************)
VARIABLES prog, lineNo, pc, phase, result, locals, envs, classes, insts, stdout, stderr, log

\* the VM and its caller:
\*   session   the sources the VM is handed: an index into VMSessions,
\*             0 when the tree-walker runs
\*   srcNo     the source of the session that is compiled next or running
\*   vmstate   "idle" between sources, "running" inside VM::interpret,
\*             "hang" when compile() does not return, "panic" after a panic
\*   compiled  the compiler after compile() and what compile() returned
\*   ip        VMExecution.ip
\*   vm        the VM: its value stack, its globals and what it printed
\*   vmresult  what compile() or interpret() returned to the caller last
\*   depths    the depth of the value stack when the chunk was compiled and
\*             after each of its statements that has run
VARIABLES session, srcNo, vmstate, compiled, ip, vm, vmresult, depths

twvars == <<prog, lineNo, pc, phase, result, locals, envs, classes, insts, stdout, stderr, log>>

vmvars == <<session, srcNo, vmstate, compiled, ip, vm, vmresult, depths>>

\* a chunk under construction and the calls that wrote it:
\*   wchunk   the Chunk
\*   writes   one record per call of Chunk::write_simple or Chunk::write_idx:
\*            the offset code.len() before the call, the line and the index
\*            passed, and whether the call panicked
VARIABLES wchunk, writes

ckvars == <<wchunk, writes>>

\* a scanner of the tree-walker and its owner:
\*   scsrc     the source: an index into ScanSources, 0 when none is scanned
\*   scanner   the Scanner
\*   items     what the calls of next() returned, in order
VARIABLES scsrc, scanner, items

scvars == <<scsrc, scanner, items>>

\* a parser of the tree-walker and its owner:
\*   psrc     the items the scanner yields, empty when nothing is parsed
\*   parser   the Parser: the number of the item it peeks
\*   parsed   what the calls of next() returned, in order
VARIABLES psrc, parser, parsed

psvars == <<psrc, parser, parsed>>

vars == <<twvars, vmvars, ckvars, scvars, psvars>>

\* what the tree-walker, the VM, the chunk writer, the scanner and the parser
\* leave alone
nontw == <<vmvars, ckvars, scvars, psvars>>
nonvm == <<twvars, ckvars, scvars, psvars>>
nonck == <<twvars, vmvars, scvars, psvars>>
nonsc == <<twvars, vmvars, ckvars, psvars>>
nonps == <<twvars, vmvars, ckvars, scvars>>

\* nothing is parsed
ParseIdle == psrc = <<>> /\ parser = 0 /\ parsed = <<>>

\* no source is scanned
ScanIdle == scsrc = 0 /\ scanner = Scan_new(<<>>) /\ items = <<>>

\* Chunk::default, nothing written
ChunkIdle == wchunk = Chunk_default /\ writes = <<>>

\* no source has been compiled
NoCompile == [c |-> Compiler_new(<<>>), ret |-> "none"]

\* the readings of the system clock a call of clock() may return
ClockValues == {1000}

\* Env::new: the root environment, with Callable::define_globals
Env_new == [parent |-> 0, weak |-> FALSE, vals |-> MapPut(EmptyMap, "clock", StaticV("clock"))]

\* the store a visit of the root interpreter starts from
Store(now) ==
    [envs |-> envs, classes |-> classes, insts |-> insts, out |-> stdout,
     roots |-> << <<"e", 1>> >>, locals |-> locals, log |-> log,
     fuel |-> MaxFuel, now |-> now]

\* Runner::file creates Interpreter::new(false, stdout)
Init ==
    /\ prog \in 1..(Len(Programs) + Len(Sessions))
    /\ lineNo = 1
    /\ pc = 0
    /\ phase = "next"
    /\ result = "running"
    /\ locals = [x \in {} |-> 0]
    /\ envs = << Env_new >>
    /\ classes = <<>>
    /\ insts = <<>>
    /\ stdout = <<>>
    /\ stderr = 0
    /\ log = <<>>
    /\ session = 0
    /\ srcNo = 1
    /\ vmstate = "idle"
    /\ compiled = NoCompile
    /\ ip = 0
    /\ vm = VM_new
    /\ vmresult = "none"
    /\ depths = <<>>
    /\ ChunkIdle
    /\ ScanIdle
    /\ ParseIdle

\* Runner::prompt is running, not Runner::file
IsPrompt == prog > Len(Programs)

\* the lines of the session at the prompt
Session == Sessions[prog - Len(Programs)]

\* a line has been read that Runner::run is to run
HasSource == IF IsPrompt THEN lineNo <= Len(Session) ELSE TRUE

\* the source text handed to Runner::run, as the items its statement
\* iterator yields
Source == IF IsPrompt THEN Session[lineNo] ELSE Programs[prog]

Item == Source[pc + 1]

\* Runner::run, Err(e) arm: the parse error is written to stderr
RunParseError ==
    /\ result = "running" /\ phase = "next"
    /\ HasSource /\ pc < Len(Source)
    /\ Item.k = "Err"
    /\ stderr' = stderr + 1
    /\ pc' = pc + 1
    /\ UNCHANGED <<prog, lineNo, phase, result, locals, envs, classes, insts, stdout, log>>
    /\ UNCHANGED nontw

\* Runner::run, Ok(stmt) arm: Resolver::resolve(i, &stmt)?
RunResolve ==
    /\ result = "running" /\ phase = "next"
    /\ HasSource /\ pc < Len(Source)
    /\ Item.k # "Err"
    /\ \E rs \in {Resolver_resolve(locals, Item)} :
       /\ locals' = rs.locals
       /\ IF rs.err # ""
          THEN result' = "Parse" /\ phase' = phase
          ELSE result' = result /\ phase' = "interpret"
    /\ UNCHANGED <<prog, lineNo, pc, envs, classes, insts, stdout, stderr, log>>
    /\ UNCHANGED nontw

\* Runner::run, Ok(stmt) arm: stmt.accept(i)?
RunInterpret ==
    /\ result = "running" /\ phase = "interpret"
    /\ \E now \in ClockValues :
       \E r \in {accept(Store(now), [env |-> 1, repl |-> IsPrompt], Item)} :
         /\ envs' = r.st.envs
         /\ classes' = r.st.classes
         /\ insts' = r.st.insts
         /\ stdout' = r.st.out
         /\ log' = r.st.log
         /\ IF r.k = "ok"
            THEN result' = result /\ pc' = pc + 1
            ELSE /\ pc' = pc
                 /\ result' = CASE r.k = "runtime" -> "Runtime"
                                [] r.k = "parse" -> "Parse"
                                [] r.k = "break" -> "Break"
                                [] r.k = "return" -> "Return"
                                [] r.k = "panic" -> "panic: " \o r.m
                                [] OTHER -> r.k
    /\ phase' = "next"
    /\ UNCHANGED <<prog, lineNo, locals, stderr>>
    /\ UNCHANGED nontw

\* Runner::run: the iterator is exhausted, Ok(())
RunDone ==
    /\ result = "running" /\ phase = "next"
    /\ HasSource /\ pc = Len(Source)
    /\ result' = "Ok"
    /\ UNCHANGED <<prog, lineNo, pc, phase, locals, envs, classes, insts, stdout, stderr, log>>
    /\ UNCHANGED nontw

\* Runner::prompt: Runner::run has returned; its error, if any, is written
\* to stderr and the next line is read.  A panic ends the process.
PromptNext ==
    /\ IsPrompt /\ HasSource
    /\ result \in {"Ok", "Runtime", "Parse", "Break", "Return"}
    /\ stderr' = IF result = "Ok" THEN stderr ELSE stderr + 1
    /\ result' = "running"
    /\ phase' = "next"
    /\ pc' = 0
    /\ lineNo' = lineNo + 1
    /\ UNCHANGED <<prog, locals, envs, classes, insts, stdout, log>>
    /\ UNCHANGED nontw

Next == RunParseError \/ RunResolve \/ RunInterpret \/ RunDone \/ PromptNext

Spec == Init /\ [][Next]_vars

(***************************************************************************)
(* compiler.rs and vm.rs: one VM that is handed the sources of a session,  *)
(* each compiled by a new Compiler and, when compile() returns Ok,         *)
(* interpreted.                                                            *)
(***************************************************************************)
\* the source the compiler is handed next
HasVMSource == IF session > 0 THEN srcNo <= Len(VMSessions[session]) ELSE FALSE

VMSource == VMSessions[session][srcNo]

\* VM::new, before the first source is compiled; the tree-walker is idle
VMInit ==
    /\ session \in 1..Len(VMSessions)
    /\ srcNo = 1
    /\ vmstate = "idle"
    /\ compiled = NoCompile
    /\ ip = 0
    /\ vm = VM_new
    /\ vmresult = "none"
    /\ depths = <<>>
    /\ prog = 1
    /\ lineNo = 1
    /\ pc = 0
    /\ phase = "next"
    /\ result = "running"
    /\ locals = [x \in {} |-> 0]
    /\ envs = << Env_new >>
    /\ classes = <<>>
    /\ insts = <<>>
    /\ stdout = <<>>
    /\ stderr = 0
    /\ log = <<>>
    /\ ChunkIdle
    /\ ScanIdle
    /\ ParseIdle

\* Compiler::new(source, line).compile(): Ok(chunk) is handed to
\* VM::interpret, Err(Error) ends the work on this source
Compile ==
    /\ vmstate = "idle" /\ HasVMSource
    /\ \E r \in {Compiler_compile(VMSource)} :
       /\ compiled' = r
       /\ IF r.ret = "Ok"
          THEN vmstate' = "running" /\ vmresult' = "none" /\ srcNo' = srcNo
          ELSE IF r.ret = "Err"
          THEN vmstate' = "idle" /\ vmresult' = "Compile" /\ srcNo' = srcNo + 1
          ELSE vmstate' = r.ret /\ vmresult' = "none" /\ srcNo' = srcNo
    /\ ip' = 0
    /\ depths' = << Len(vm.stack) >>
    /\ UNCHANGED <<session, vm>>
    /\ UNCHANGED nonvm

\* the chunk VM::interpret was handed
Chunk == compiled.c.chunk

\* VMExecution::run, one turn of its loop: Chunk::read, the instruction, and
\* ip += inst.len(); run returns Ok(()) when read returns None
Run(vmx, ch, at) ==
    IF at >= Len(ch.code) THEN Step(vmx, "Ok")
    ELSE VMExecution_run_inst(vmx, ch, Chunk_read(ch, at))

\* the opcodes the compiler ends a statement with: print_statement,
\* expression_statement and define_variable
StatementEnds == {"Print", "Pop", DefineGlobal[1], DefineGlobal[2], DefineGlobal[3]}

Interpret ==
    /\ vmstate = "running"
    /\ \E r \in {Run(vm, Chunk, ip)} :
       /\ vm' = r.vm
       /\ IF r.res = "next"
          THEN /\ ip' = ip + Instruction_len(Chunk_read(Chunk, ip))
               /\ depths' = IF Chunk_read(Chunk, ip).op \in StatementEnds
                             THEN Append(depths, Len(r.vm.stack)) ELSE depths
               /\ UNCHANGED <<vmstate, vmresult, srcNo>>
          ELSE /\ ip' = ip
               /\ depths' = depths
               /\ vmresult' = r.res
               /\ vmstate' = IF r.res = "panic" THEN "panic" ELSE "idle"
               /\ srcNo' = srcNo + 1
    /\ UNCHANGED <<session, compiled>>
    /\ UNCHANGED nonvm

VMNext == Compile \/ Interpret

VMSpec == VMInit /\ [][VMNext]_vars

(***************************************************************************)
(* chunk.rs and skip.rs: a chunk written by a sequence of calls of         *)
(* Chunk::write_simple and Chunk::write_idx.                               *)
(***************************************************************************)
\* the tree-walker has not started
TreeIdle ==
    /\ prog = 1
    /\ lineNo = 1
    /\ pc = 0
    /\ phase = "next"
    /\ result = "running"
    /\ locals = [x \in {} |-> 0]
    /\ envs = << Env_new >>
    /\ classes = <<>>
    /\ insts = <<>>
    /\ stdout = <<>>
    /\ stderr = 0
    /\ log = <<>>

\* no VM runs
VMIdle ==
    /\ session = 0
    /\ srcNo = 1
    /\ vmstate = "idle"
    /\ compiled = NoCompile
    /\ ip = 0
    /\ vm = VM_new
    /\ vmresult = "none"
    /\ depths = <<>>

\* the number of calls that write one chunk
MaxWrites == 3

\* the lines passed to the calls, in any order
WriteLines == {1, 2}

\* the indices passed to Chunk::write_idx: the ends of the three widths
WriteIndices == {0, 255, 256, 65535, 65536, 524279, 524280, 16777215}

\* SkipList::get
RECURSIVE SkipList_get_from(_, _, _, _)
SkipList_get_from(elems, idx, i, val) ==
    IF i > Len(elems) THEN val
    ELSE IF elems[i][1] = idx THEN elems[i][2]
    ELSE IF elems[i][1] < idx THEN SkipList_get_from(elems, idx, i + 1, elems[i][2])
    ELSE val

\* Option<&T>::None of SkipList::get
NoLine == 0 - 1

SkipList_get(elems, idx) == SkipList_get_from(elems, idx, 1, NoLine)

ChunkInit == ChunkIdle /\ TreeIdle /\ VMIdle /\ ScanIdle /\ ParseIdle

\* chunk.write_simple(line, op)
WriteSimple ==
    /\ Len(writes) < MaxWrites /\ ~wchunk.panic
    /\ \E ln \in WriteLines :
       /\ wchunk' = Chunk_write_simple(wchunk, ln, "Return")
       /\ writes' = Append(writes, [offset |-> Len(wchunk.code), ln |-> ln, idx |-> NoLine,
                                     entries |-> Len(wchunk.lines)])
    /\ UNCHANGED nonck

\* chunk.write_idx(line, ops, idx)
WriteIdx ==
    /\ Len(writes) < MaxWrites /\ ~wchunk.panic
    /\ \E ln \in WriteLines, ops \in {Constant, GetGlobal}, idx \in WriteIndices :
       /\ wchunk' = Chunk_write_idx(wchunk, ln, ops, idx)
       /\ writes' = Append(writes, [offset |-> Len(wchunk.code), ln |-> ln, idx |-> idx,
                                     entries |-> Len(wchunk.lines)])
    /\ UNCHANGED nonck

ChunkNext == WriteSimple \/ WriteIdx

ChunkSpec == ChunkInit /\ [][ChunkNext]_vars

(***************************************************************************)
(* scanner.rs: the scanner as an iterator, one call of next() per step.    *)
(***************************************************************************)
\* the number of calls of next() on one scanner
MaxItems == 8

ScanInit ==
    /\ scsrc \in 1..Len(ScanSources)
    /\ scanner = Scan_new(ScanSources[scsrc])
    /\ items = <<>>
    /\ TreeIdle /\ VMIdle /\ ChunkIdle /\ ParseIdle

\* Scanner::next, called by the owner of the iterator
ScanNext ==
    /\ scsrc > 0 /\ Len(items) < MaxItems /\ ~scanner.panic
    /\ \E r \in {Scan_next(scanner)} :
       /\ scanner' = r.sc
       /\ items' = Append(items, r.item)
    /\ UNCHANGED scsrc
    /\ UNCHANGED nonsc

ScanSpec == ScanInit /\ [][ScanNext]_vars

(***************************************************************************)
(* parser.rs: the parser as an iterator, one call of next() per step.      *)
(***************************************************************************)
\* the statements of the sources, as the items the scanner yields
StatementTexts ==
    << << "Print", "Number", "Semicolon" >>,                        \* print 1;
       << "Identifier", "Equal", "Number", "Semicolon" >>,          \* x = 1;
       << "Print", "Semicolon" >>,                                  \* print ;
       << "Number", "Equal", "Number", "Semicolon" >>,              \* 1 = 2;
       << "LeftParen", "Number", "Semicolon" >>,                    \* ( 1 ;
       << "Err" >>,                                                 \* @
       << "Identifier", "Equal" >>,                                 \* x =
       << "Var", "Identifier", "Semicolon" >>,                      \* var x;
       << "LeftBrace", "Print", "Number", "Plus", "Semicolon", "RightBrace" >>,
                                                                    \* { print 1 + ; }
       << "If", "LeftParen", "Identifier", "RightParen", "Print", "Number",
          "Semicolon", "Else", "Semicolon" >>,                      \* if (x) print 1; else ;
       << "For", "LeftParen", "Semicolon", "Semicolon", "RightParen", "Break",
          "Semicolon" >>,                                           \* for (;;) break;
       << "Fun", "Identifier", "LeftParen", "Identifier", "RightParen", "LeftBrace",
          "Return", "Identifier", "LeftParen", "Number", "Comma", "Number",
          "RightParen", "Semicolon", "RightBrace" >> >>             \* fun f(a) { return a(1, 2); }

\* the number of statements of a source
MaxStatements == 3

\* the items of the statements chosen, and the EOF token
RECURSIVE ItemsOf(_)
ItemsOf(chosen) ==
    IF chosen = <<>> THEN << "EOF" >>
    ELSE StatementTexts[Head(chosen)] \o ItemsOf(Tail(chosen))

ParseInit ==
    /\ \E chosen \in [1..MaxStatements -> 1..Len(StatementTexts)] : psrc = ItemsOf(chosen)
    /\ parser = 1
    /\ parsed = <<>>
    /\ TreeIdle /\ VMIdle /\ ChunkIdle /\ ScanIdle

\* Parser::next, called by the owner of the iterator until it returns None
ParserNext ==
    /\ psrc # <<>>
    /\ IF parsed = <<>> THEN TRUE ELSE parsed[Len(parsed)].res # "None"
    /\ \E r \in {Parser_next(psrc, parser)} :
       /\ parser' = r.to
       /\ parsed' = Append(parsed, r)
    /\ UNCHANGED psrc
    /\ UNCHANGED nonps

ParseSpec == ParseInit /\ [][ParserNext]_vars

(***************************************************************************)
(* Properties.  The history log holds one entry per visit of the          *)
(* operations the properties are about.                                    *)
(***************************************************************************)
LogOf(tag) == {i \in 1..Len(log) : log[i].tag = tag}

\* C1: whenever a closure is called every environment on its captured
\* parent chain is still alive, so no run of any program ends in the panic
\* "parent env went out of scope".
C1_ParentNeverDropped == result # "panic: parent env went out of scope"

\* C2: an assignment x = e succeeds in writing the binding of x the
\* resolver chose for the assignment expression (the global one when it
\* recorded no depth), whatever the form of e, and changes the binding of x
\* in no other environment.
C2_AssignWritesResolvedBinding ==
    \A i \in LogOf("assign") :
        log[i].target # 0 =>
            /\ log[i].k = "ok"
            /\ log[i].w = log[i].target
            /\ log[i].changed \subseteq {log[i].target}

C4_GlobalRedeclarationRebinds ==
    \A i \in LogOf("decl") :
        log[i].existed =>
            IF log[i].env = 1
            THEN log[i].k = "ok" /\ log[i].after = log[i].v
            ELSE log[i].k # "ok"

\* C5: a Break sentinel is never the outcome of a function call and never
\* the result the runner reports.
C5_BreakStaysInLoop ==
    /\ result # "Break"
    /\ \A i \in LogOf("call") : log[i].rk # "break"

\* C6: a call of a user function whose body ends normally or with a Return
\* sentinel yields a value: the instance bound as this for an initializer,
\* the carried value after a return, nil otherwise; no call yields the
\* sentinel and the runner never reports it.
C6_ReturnCaughtByCall ==
    /\ result # "Return"
    /\ \A i \in LogOf("call") :
         /\ log[i].rk # "return"
         /\ log[i].bk \in {"ok", "return"} =>
              /\ log[i].rk = "ok"
              /\ IF log[i].init
                 THEN \E j \in LogOf("bind") :
                         /\ log[j].env = log[i].scope
                         /\ log[i].rv.t = "inst"
                         /\ log[i].rv.id = log[j].inst
                 ELSE IF log[i].bk = "return" THEN log[i].rv = log[i].bv
                 ELSE log[i].rv = NilV

\* an initializer call has yielded its instance, and a call whose body
\* raised Return has yielded the carried, non-nil value
C6_Witness ==
    /\ \E i \in LogOf("call") : log[i].init /\ log[i].rk = "ok" /\ log[i].rv.t = "inst"
    /\ \E i \in LogOf("call") :
         log[i].bk = "return" /\ log[i].rk = "ok" /\ log[i].rv = log[i].bv /\ log[i].rv # NilV

\* the program text: whether a super expression at line, off occurs in e, in s
RECURSIVE HasSuperExpr(_, _, _)
HasSuperExpr(e, line, off) ==
    \/ e.k = "Super" /\ e.line = line /\ e.off = off
    \/ \E i \in 1..Len(e.kids) : HasSuperExpr(e.kids[i], line, off)

RECURSIVE HasSuperStmt(_, _, _)
HasSuperStmt(s, line, off) ==
    \/ \E i \in 1..Len(s.e) : HasSuperExpr(s.e[i], line, off)
    \/ \E i \in 1..Len(s.ss) : HasSuperStmt(s.ss[i], line, off)

\* the class object of the class statement that textually holds the super
\* expression at line, off
TextualClass(line, off) ==
    LET s == CHOOSE s \in {Programs[prog][i] : i \in 1..Len(Programs[prog])} :
                 s.k = "Class" /\ HasSuperStmt(s, line, off)
    IN CHOOSE c \in 1..Len(classes) : classes[c].name = s.name

\* the nearest class at or above c whose table holds method, 0 if none
RECURSIVE NearestDef(_, _)
NearestDef(c, method) ==
    IF c = 0 THEN 0
    ELSE IF method \in DOMAIN classes[c].methods THEN c
    ELSE NearestDef(classes[c].parent, method)

\* the nearest environment at or above e that binds this, 0 if none
RECURSIVE ThisScope(_)
ThisScope(e) ==
    IF e = 0 THEN 0
    ELSE IF "this" \in DOMAIN envs[e].vals THEN e
    ELSE ThisScope(envs[e].parent)

\* C7: super.m in a method written in class C with superclass P looks m up
\* from P, yields the nearest definition on the ancestor chain of P bound to
\* the receiver of the executing method (also from a nested function), and
\* is a runtime error when there is no definition.
C7_SuperFromTextualSuperclass ==
    \A i \in LogOf("super") :
        LET P == classes[TextualClass(log[i].line, log[i].off)].parent
            O == NearestDef(P, log[i].method)
            R == ThisScope(log[i].env)
        IN /\ log[i].parent = P
           /\ IF O = 0 THEN log[i].k = "runtime"
              ELSE /\ log[i].k = "ok"
                   /\ log[i].v.t = "func"
                   /\ log[i].v.body = classes[O].methods[log[i].method].body
                   /\ R # 0
                   /\ envs[log[i].v.id].vals["this"] = envs[R].vals["this"]

\* a super lookup has succeeded on a receiver whose class is not the class
\* that textually holds the expression
C7_Witness ==
    \E i \in LogOf("super") :
        /\ log[i].k = "ok"
        /\ insts[log[i].inst].class # TextualClass(log[i].line, log[i].off)
        /\ log[i].owner = log[i].parent

\* C8: a class call yields an instance no earlier call yielded; when the
\* class or an ancestor defines init, that method has been called, bound to
\* the new instance, with the arguments of the call; when none does, the
\* call has no arguments and succeeds.
C8_ClassCallConstructs ==
    \A i \in LogOf("new") :
        LET I == NearestDef(log[i].class, "init") IN
        /\ log[i].hasInit <=> I # 0
        /\ log[i].k = "ok" =>
             /\ log[i].v = InstV(log[i].before + 1, log[i].class)
             /\ \A j \in LogOf("new") : j < i => log[j].v # log[i].v
        /\ I # 0 =>
             /\ \E j \in LogOf("call") :
                  /\ j < i
                  /\ log[j].scope = log[i].scope
                  /\ log[j].init
                  /\ log[j].args = log[i].args
             /\ \E j \in LogOf("bind") :
                  /\ j < i
                  /\ log[j].env = log[i].scope
                  /\ log[j].inst = log[i].before + 1
        /\ I = 0 => log[i].args = <<>> /\ log[i].k = "ok"

\* a class call with an argument has run an inherited init and yielded the
\* instance
C8_Witness ==
    \E i \in LogOf("new") :
        /\ log[i].hasInit
        /\ "init" \notin DOMAIN classes[log[i].class].methods
        /\ log[i].args # <<>>
        /\ log[i].k = "ok"

\* C9: the scope made by binding a method to an instance binds this to that
\* instance for ever, and every evaluation of this yields the instance of
\* the nearest such scope.
C9_BoundMethodKeepsReceiver ==
    /\ \A b \in LogOf("bind") :
         /\ "this" \in DOMAIN envs[log[b].env].vals
         /\ envs[log[b].env].vals["this"].t = "inst"
         /\ envs[log[b].env].vals["this"].id = log[b].inst
    /\ \A t \in LogOf("this") :
         LET R == ThisScope(log[t].env) IN
         R # 0 =>
           /\ log[t].k = "ok"
           /\ log[t].v.t = "inst"
           /\ \E b \in LogOf("bind") : log[b].env = R /\ log[b].inst = log[t].v.id

\* a method bound to one instance has evaluated this after the same method
\* was bound to another instance
C9_Witness ==
    \E b1, b2 \in LogOf("bind") : \E t \in LogOf("this") :
        /\ b1 < b2 /\ b2 < t
        /\ log[b1].inst # log[b2].inst
        /\ ThisScope(log[t].env) = log[b1].env
        /\ log[t].v.id = log[b1].inst

\* the last write of field to the instance of origin before entry g
LastSet(g) ==
    LET W == {j \in LogOf("set") : /\ j < g
                                   /\ log[j].origin = log[g].origin
                                   /\ log[j].field = log[g].field}
    IN IF W = {} THEN 0 ELSE CHOOSE j \in W : \A j2 \in W : j2 <= j

\* C10: a read of a field of an instance yields the value last written to
\* that field through any reference to the same instance and is undefined
\* when there was no such write, whatever was written to other instances;
\* all references to one instance share one field map.
C10_AliasesShareFields ==
    /\ \A g \in LogOf("get") :
         IF LastSet(g) = 0 THEN log[g].k = "runtime"
         ELSE log[g].k = "ok" /\ log[g].v = log[LastSet(g)].v
    /\ \A i, j \in 1..Len(insts) :
         insts[i].origin = insts[j].origin => insts[i].fields = insts[j].fields

\* a read has yielded the value written through another reference to the
\* same instance although a different value was written to the same field
\* of another instance in between
C10_Witness ==
    \E g \in LogOf("get") : \E s2 \in LogOf("set") :
        /\ LastSet(g) # 0 /\ LastSet(g) < s2 /\ s2 < g
        /\ log[s2].origin # log[g].origin
        /\ log[s2].field = log[g].field
        /\ log[s2].v # log[g].v
        /\ log[g].v = log[LastSet(g)].v

SiteEntries(d, tag) ==
    {a \in LogOf(tag) : a > log[d].start /\ a < d /\ log[a].site = log[d].site}

\* C12: a call whose argument count differs from the arity of the callee is a
\* runtime error (no argument is evaluated, the callee is not called);
\* otherwise the arguments are evaluated left to right, each once, the first
\* one that fails ends the call with its error, no later one is evaluated and
\* the callee is not called: nothing is called after the failed argument
C12_ArityAndArgumentOrder ==
    \A d \in LogOf("dispatch") :
        LET A == SiteEntries(d, "arg")
            I == SiteEntries(d, "invoke")
        IN IF log[d].arity # log[d].nargs
           THEN log[d].k = "runtime" /\ A = {} /\ I = {}
           ELSE /\ \A a \in A : log[a].i = Cardinality({b \in A : b <= a})
                /\ \A a \in A : log[a].k # "ok" =>
                       /\ log[d].k = log[a].k
                       /\ I = {}
                       /\ \A b \in (a + 1)..(d - 1) :
                              log[b].tag \notin {"arg", "invoke", "call", "new", "dispatch"}
                /\ \A v \in I : /\ Cardinality(A) = log[d].nargs
                                 /\ \A a \in A : a < v /\ log[a].k = "ok"
                /\ (\A a \in A : log[a].k = "ok") => Cardinality(I) = 1

\* a call has failed with the error of its second argument after its first
\* argument was evaluated (the last line printed is that of the first
\* argument), after an earlier call with three arguments reached its callee
C12_Witness ==
    /\ \E d \in LogOf("dispatch") :
          /\ log[d].arity = log[d].nargs /\ log[d].nargs = 3
          /\ \E a \in SiteEntries(d, "arg") : log[a].i = 2 /\ log[a].k = "runtime"
          /\ \E a \in SiteEntries(d, "arg") : log[a].i = 1 /\ log[a].k = "ok"
          /\ stdout[Len(stdout)] = "1"
    /\ \E d \in LogOf("dispatch") : log[d].nargs = 3 /\ SiteEntries(d, "invoke") # {}

\* C13: when a file is run, once a statement has failed to parse (Runner::run has
\* written the parse error to stderr), no later statement is resolved or
\* executed and the run does not return Ok
C13_ParseErrorAborts ==
    [][(~IsPrompt /\ stderr > 0) =>
         /\ ~(phase = "next" /\ phase' = "interpret")
         /\ phase # "interpret"
         /\ result' # "Ok"]_vars

\* C14: for every identifier, this or super expression with a recorded
\* depth d, the name is bound in the environment exactly d parent links above
\* the current one when the expression is evaluated
C14_BoundAtRecordedDepth ==
    \A i \in LogOf("lookup") : log[i].dist # NoDist => log[i].here

\* C15: for the statements of a file and for successive lines at the prompt,
\* every lookup with a recorded depth d finds d ancestors above the current
\* environment, and the error "ancestor is undefined" is never produced
C15_DepthInRange ==
    \A i \in LogOf("lookup") :
        /\ log[i].dist # NoDist => log[i].at # 0
        /\ log[i].m # "ancestor is undefined"

\* the return statements of statement s that return from the function s is
\* in: those of its blocks and branches, not those of nested functions
RECURSIVE ReturnsIn(_)
ReturnsIn(s) ==
    CASE s.k = "Return" -> {s}
      [] s.k \in {"Block", "If", "While"} ->
           UNION {ReturnsIn(s.ss[i]) : i \in 1..Len(s.ss)}
      [] OTHER -> {}

\* the return statements of the init methods of class statement s
InitReturns(s) ==
    UNION {ReturnsIn(s.ss[i].ss[1]) : i \in {j \in 1..Len(s.ss) : s.ss[j].name = "init"}}

\* C16: the resolver rejects a class whose init holds a return statement with
\* a value, and it does not reject a return statement without a value: the
\* error of returning a value from an initializer is given only if some
\* return statement of init carries a value
C16_InitReturnValueRejected ==
    (HasSource /\ pc < Len(Source) /\ Item.k = "Class") =>
        LET err == Resolver_resolve(locals, Item).err
            valued == \E r \in InitReturns(Item) : r.e # <<>>
        IN /\ valued => err # ""
           /\ (err = "cannot return a value from an initializer") => valued
           /\ (result = "Parse" /\ phase = "next") => (valued \/ InitReturns(Item) = {})

\* C17: the operators < <= > >= yield a boolean only when both operands
\* are numbers; for every other pair of operands the comparison is a
\* runtime error
C17_ComparisonNeedsNumbers ==
    \A i \in LogOf("compare") :
        IF log[i].l.t = "num" /\ log[i].r.t = "num"
        THEN log[i].k = "ok" /\ log[i].v.t = "bool"
        ELSE log[i].k = "runtime"

(***************************************************************************)
(* Properties of the bytecode pipeline, checked under VMSpec.              *)
(***************************************************************************)
\* compile() has returned to its caller
CompileReturned == compiled.ret \in {"Ok", "Err"}

\* C18: when the compiler detected a syntax error in any statement of the
\* source, that is when Compiler::error was called at least once, compile()
\* returns Err; it returns Ok only when no error was detected.
C18_ErrorMakesCompileFail ==
    CompileReturned => (compiled.ret = "Err" <=> compiled.c.errors > 0)

\* the VM is about to execute an instruction of its chunk
AtInst == vmstate = "running" /\ ip < Len(Chunk.code)

\* that instruction is one of the three widths of ops, and the name its
\* index refers to
AtOp(ops) == AtInst /\ Chunk_read(Chunk, ip).op \in {ops[1], ops[2], ops[3]}

NameAtIp == Chunk_read_const(Chunk, bytes_to_usize(Chunk_read(Chunk, ip).data)).s

\* a step adds a name to the globals table only by executing the
\* DEFINE_GLOBAL of that name
GlobalsGrowByDefine ==
    \A name \in DOMAIN vm'.globals \ DOMAIN vm.globals :
        AtOp(DefineGlobal) /\ NameAtIp = name

\* SET_GLOBAL and GET_GLOBAL on an absent name return UndefinedVariable and
\* leave the globals table as it is
AbsentNameIsUndefined ==
    ((AtOp(SetGlobal) \/ AtOp(GetGlobal)) /\ NameAtIp \notin DOMAIN vm.globals)
        => (vmresult' = "UndefinedVariable" /\ vm'.globals = vm.globals)

\* DEFINE_GLOBAL on a present name binds it to the value on top of the stack
DefineOverwrites ==
    (AtOp(DefineGlobal) /\ NameAtIp \in DOMAIN vm.globals /\ vm.stack # <<>>)
        => /\ vm'.globals[NameAtIp] = vm.stack[Len(vm.stack)]
           /\ DOMAIN vm'.globals = DOMAIN vm.globals
           /\ \A name \in DOMAIN vm.globals \ {NameAtIp} : vm'.globals[name] = vm.globals[name]

\* C19: a name is in the globals table only if a DEFINE_GLOBAL for it has
\* executed: SET_GLOBAL and GET_GLOBAL on an absent name return
\* UndefinedVariable and leave the table unchanged, and DEFINE_GLOBAL on a
\* present name overwrites its value.
C19_GlobalsOnlyByDefine ==
    [][GlobalsGrowByDefine /\ AbsentNameIsUndefined /\ DefineOverwrites]_vars

\* the parts of it that do not depend on what SET_GLOBAL finds on the stack
GlobalsByDefineOnly == [][GlobalsGrowByDefine /\ DefineOverwrites]_vars

\* the VM is about to execute ADD on two operands that are neither both
\* numbers nor both strings
AtMixedAdd ==
    /\ AtInst /\ Chunk_read(Chunk, ip).op = "Add" /\ Len(vm.stack) >= 2
    /\ LET l == vm.stack[Len(vm.stack) - 1]
           r == vm.stack[Len(vm.stack)]
       IN ~(l.t = "Number" /\ r.t = "Number") /\ ~(l.t = "String" /\ r.t = "String")

\* C20: executing ADD with operands that are neither both numbers nor both
\* strings makes interpret() return an error value and leaves the VM
\* usable, so that the next source can be run; the process does not abort.
C20_MixedAddIsRuntimeError ==
    [][AtMixedAdd => (vmresult' \in {"Runtime", "MustBeANumber"} /\ vmstate' = "idle")]_vars

\* the VM is about to execute NOT on a non-empty stack
AtNot == AtInst /\ Chunk_read(Chunk, ip).op = "Not" /\ vm.stack # <<>>

\* the value is nil, false, the number 0 or the empty string
IsFalsey(v) ==
    \/ v.t = "Nil"
    \/ v.t = "Bool" /\ ~v.b
    \/ v.t = "Number" /\ ~v.nan /\ v.n = 0
    \/ v.t = "String" /\ v.s = ""

\* C21: executing NOT replaces the top of the stack by the boolean true
\* when that value is nil, false, the number 0 or the empty string and by
\* the boolean false for every other value; it never fails on a non-empty
\* stack.
C21_NotIsFalsey ==
    [][AtNot => /\ vmstate' = "running"
                /\ Len(vm'.stack) = Len(vm.stack)
                /\ vm'.stack[Len(vm.stack)] = Value_Bool(IsFalsey(vm.stack[Len(vm.stack)]))]_vars

\* the same for every value but nil, which NOT leaves on the stack
NotIsFalseyButNil ==
    [][(AtNot /\ vm.stack[Len(vm.stack)].t # "Nil")
          => /\ vmstate' = "running"
             /\ vm'.stack[Len(vm.stack)] = Value_Bool(IsFalsey(vm.stack[Len(vm.stack)]))]_vars

(***************************************************************************)
(* Properties of the chunk writer, checked under ChunkSpec.                *)
(***************************************************************************)
\* the calls of Chunk::write_idx made so far
IdxWrites == {i \in 1..Len(writes) : writes[i].idx # NoLine}

\* the call wrote an instruction: it did not panic
Wrote(i) == writes[i].offset < Len(wchunk.code)

\* the number of operand bytes of the instruction the call wrote
WidthOf(i) == OpCode_data_len(Chunk_read(wchunk, writes[i].offset).op)

\* C22: Chunk::write_idx encodes an index with the 8-bit opcode iff it is
\* at most 255, with the 16-bit opcode iff it is in 256..65535 and with the
\* 24-bit opcode for every index from 65536 up to 2^24 - 1.
C22_NarrowestWidth ==
    \A i \in IdxWrites :
        /\ Wrote(i)
        /\ WidthOf(i) = 1 <=> writes[i].idx <= 255
        /\ WidthOf(i) = 2 <=> writes[i].idx \in 256..65535
        /\ WidthOf(i) = 3 <=> writes[i].idx \in 65536..16777215

\* the same for the indices below MAX_24 = MAX_16 * 8, with the index read
\* back from the operand bytes
WidthBelowMax24 ==
    \A i \in IdxWrites :
        writes[i].idx < MAX_24 =>
            /\ Wrote(i)
            /\ WidthOf(i) = 1 <=> writes[i].idx <= 255
            /\ WidthOf(i) = 2 <=> writes[i].idx \in 256..65535
            /\ WidthOf(i) = 3 <=> writes[i].idx >= 65536
            /\ bytes_to_usize(Chunk_read(wchunk, writes[i].offset).data) = writes[i].idx

\* the byte offsets of the instruction the call wrote
OffsetsOf(i) == writes[i].offset .. (writes[i].offset + WidthOf(i))

\* the number of entries of the line table after the call
EntriesAfter(i) == IF i = Len(writes) THEN Len(wchunk.lines) ELSE writes[i + 1].entries

\* C23: for every byte offset of an emitted instruction, its opcode byte
\* and its operand bytes, the lookup in the line table returns the line
\* passed to the call that emitted it, also when the lines of successive
\* calls do not grow; a call with the line of the call before it adds no
\* entry.
C23_LineOfEveryOffset ==
    \A i \in 1..Len(writes) :
        Wrote(i) =>
            /\ \A off \in OffsetsOf(i) : SkipList_get(wchunk.lines, off) = writes[i].ln
            /\ (i > 1 /\ writes[i - 1].ln = writes[i].ln) => EntriesAfter(i) = writes[i].entries

\* three instructions, the second with operand bytes, on lines 2, 1, 2
C23_Witness ==
    /\ Len(writes) = 3 /\ Wrote(3)
    /\ writes[1].ln = 2 /\ writes[2].ln = 1 /\ writes[3].ln = 2
    /\ WidthOf(2) = 3
    /\ SkipList_get(wchunk.lines, writes[2].offset + 3) = 1

(***************************************************************************)
(* Properties of the scanner, checked under ScanSpec.                      *)
(***************************************************************************)
\* the item is an EOF token or an Err
EndsScan(item) == item.k = "Err" \/ (item.k = "Ok" /\ item.typ = "EOF")

\* C24: once the scanner has returned an EOF token or an Err item, every
\* later call of next() returns None.
C24_NoneAfterEofOrErr ==
    \A i \in 1..Len(items) : \A j \in (i + 1)..Len(items) :
        EndsScan(items[i]) => items[j].k = "None"

\* the same after an EOF token only
NoneAfterEof ==
    \A i \in 1..Len(items) : \A j \in (i + 1)..Len(items) :
        (items[i].k = "Ok" /\ items[i].typ = "EOF") => items[j].k = "None"

\* the source with every block comment, from its `/*` through the first
\* following `*/` or to the end of the input, replaced by one space and by
\* the newlines it holds; strings and line comments are copied
RECURSIVE Uncomment(_, _, _)
Uncomment(s, i, mode) ==
    IF i > Len(s) THEN <<>>
    ELSE IF mode = "block" THEN
        IF s[i] = "*" /\ i < Len(s) /\ s[i + 1] = "/"
        THEN <<" ">> \o Uncomment(s, i + 2, "code")
        ELSE IF s[i] = "\n" THEN <<"\n">> \o Uncomment(s, i + 1, "block")
        ELSE Uncomment(s, i + 1, "block")
    ELSE IF mode = "string" THEN
        <<s[i]>> \o Uncomment(s, i + 1,
                              IF s[i] = "\"" /\ s[i - 1] # "\\" THEN "code" ELSE "string")
    ELSE IF mode = "line" THEN
        <<s[i]>> \o Uncomment(s, i + 1, IF s[i] = "\n" THEN "code" ELSE "line")
    ELSE IF s[i] = "/" /\ i < Len(s) /\ s[i + 1] = "*" THEN Uncomment(s, i + 2, "block")
    ELSE IF s[i] = "/" /\ i < Len(s) /\ s[i + 1] = "/"
        THEN <<"/", "/">> \o Uncomment(s, i + 2, "line")
    ELSE <<s[i]>> \o Uncomment(s, i + 1, IF s[i] = "\"" THEN "string" ELSE "code")

\* the items the first n calls of next() return
RECURSIVE ScanAll(_, _)
ScanAll(sc, n) ==
    IF n = 0 \/ sc.panic THEN <<>>
    ELSE LET r == Scan_next(sc) IN <<r.item>> \o ScanAll(r.sc, n - 1)

\* C25: a block comment consumes exactly the characters from its `/*`
\* through the first following `*/` (or to the end of the input): the items
\* scanned are those of the source without the comment, so the character
\* after `*/` is scanned normally and a newline after it advances the line.
C25_BlockCommentConsumesItself ==
    scsrc > 0 =>
        items = ScanAll(Scan_new(Uncomment(ScanSources[scsrc], 1, "code")), Len(items))

\* the same for the comments that a space, a tab or a return follows and
\* for those the end of the input closes
BlockCommentBeforeBlank ==
    (/\ scsrc > 0
     /\ \A i \in 1..(Len(ScanSources[scsrc]) - 1) :
            (ScanSources[scsrc][i] = "*" /\ ScanSources[scsrc][i + 1] = "/"
                    /\ i > 1 /\ ScanSources[scsrc][i - 1] # "/")
                => /\ i + 2 <= Len(ScanSources[scsrc])
                   /\ ScanSources[scsrc][i + 2] \in {" ", "\t", "\r"})
    => items = ScanAll(Scan_new(Uncomment(ScanSources[scsrc], 1, "code")), Len(items))

(***************************************************************************)
(* Properties of the parser, checked under ParseSpec.                      *)
(***************************************************************************)
\* the calls of next() that returned an Err
ParseErrors == {i \in 1..Len(parsed) : parsed[i].res = "Err"}

\* the items synchronize() discarded after the i-th call failed
Discarded(i) == parsed[i].at .. (parsed[i].to - 1)

\* C26: after a parse error the parser stops discarding as soon as it has
\* consumed a `;` or the next token is one of class, fun, var, for, if,
\* while, print, return, either alone: no item but the last discarded is a
\* `;`, no item but the first discarded is one of these, and the next call
\* starts where the discarding stopped.
C26_SynchronizeStopsAtEither ==
    /\ \A i \in ParseErrors :
        /\ \A q \in Discarded(i) : q + 1 \in Discarded(i) => psrc[q] # "Semicolon"
        /\ \A q \in Discarded(i) : q - 1 \in Discarded(i) => psrc[q] \notin SyncTypes
    /\ \A i \in 1..(Len(parsed) - 1) : parsed[i + 1].from = parsed[i].to

\* synchronize() stops where both hold, before a lexical error or at the end
SynchronizeStopsAtBoth ==
    /\ \A i \in ParseErrors :
        \/ Parser_peek(psrc, parsed[i].to) \in {"Err", "None"}
        \/ /\ parsed[i].to - 1 \in Discarded(i)
           /\ psrc[parsed[i].to - 1] = "Semicolon"
           /\ psrc[parsed[i].to] \in SyncTypes
    /\ \A i \in 1..(Len(parsed) - 1) : parsed[i + 1].from = parsed[i].to

(***************************************************************************)
(* Properties of the environments, checked under Spec.                     *)
(***************************************************************************)
\* C27 as stated: Env::from_weak(parent) links the new environment to
\* parent by a weak reference when the ancestor chain of parent already
\* contains a weak link, and by a strong reference otherwise.
C27_WeakWhenChainHasWeak ==
    \A i \in LogOf("from_weak") :
        /\ envs[log[i].env].parent = log[i].parent
        /\ envs[log[i].env].weak = log[i].had

\* C27 amended: Env::from_weak(parent) links the new environment to parent
\* by a strong reference when the ancestor chain of parent already contains
\* a weak link, and by a weak reference otherwise.
C27_StrongWhenChainHasWeak ==
    \A i \in LogOf("from_weak") :
        /\ envs[log[i].env].parent = log[i].parent
        /\ envs[log[i].env].weak = ~log[i].had

\* from_weak has been called on a chain with a weak link and on one without
C27_Witness ==
    /\ \E i \in LogOf("from_weak") : log[i].had /\ ~envs[log[i].env].weak
    /\ \E i \in LogOf("from_weak") : ~log[i].had /\ envs[log[i].env].weak

\* the number of weak parent links from an environment up to the root
RECURSIVE WeakLinks(_)
WeakLinks(e) ==
    IF envs[e].parent = 0 THEN 0
    ELSE (IF envs[e].weak THEN 1 ELSE 0) + WeakLinks(envs[e].parent)

\* C28: after any sequence of block entries, function and class
\* definitions, method binds and calls, the ancestor chain of every
\* environment holds at most one weak parent link.
C28_AtMostOneWeakLink == \A e \in 1..Len(envs) : WeakLinks(e) <= 1

\* a method was bound and called, and a function or class was defined below
\* a weak link: its environment is linked strongly, two links or more above
\* it the weak one
C28_Witness ==
    /\ LogOf("bind") # {} /\ LogOf("call") # {}
    /\ \E i \in LogOf("from_weak") :
        /\ log[i].had
        /\ WeakLinks(log[i].env) = 1
        /\ ~envs[log[i].parent].weak

\* C29: Compiler::compile() terminates for every finite token stream,
\* streams with syntax errors included: no iteration of the declaration
\* loop or of the loop of synchronize() leaves the tokens where they were
\* and goes round again.
C29_CompileTerminates == vmstate # "hang" /\ compiled.c.k # "hang"

\* compile() returns for the sources without syntax errors
CompileTerminatesWithoutErrors == compiled.c.errors = 0 => compiled.ret # "hang"

\* the chunk the VM runs or ran last was compiled without a syntax error
CompiledWithoutErrors == compiled.ret = "Ok" /\ compiled.c.errors = 0

\* C30: for the chunk compiled from a source without syntax errors the VM
\* never pops or peeks an empty value stack, interpret() never returns
\* Error::Runtime, and after each statement that ran without a runtime
\* error the value stack is as deep as before the statement, expression
\* statements that assign with SET_GLOBAL included.
C30_StackDiscipline ==
    CompiledWithoutErrors =>
        /\ vmresult # "Runtime"
        /\ \A i \in 1..Len(depths) : depths[i] = depths[1]

\* the source `a = a + 1; print a;` has run to its end: its assignment and
\* its print left the stack as deep as it was
C30_Witness ==
    /\ CompiledWithoutErrors
    /\ vmresult = "Ok"
    /\ Len(depths) > 1
    /\ srcNo > 1
    /\ VMSessions[session][srcNo - 1] = SrcAssign

\* a source with a syntax error that compile() lets through breaks both
StackDisciplineWhateverCompiled ==
    compiled.ret = "Ok" =>
        /\ vmresult # "Runtime"
        /\ \A i \in 1..Len(depths) : depths[i] = depths[1]

=============================================================================
